---- MODULE Spec2Model ----
(***************************************************************************)
(* Model of the Kolibri GNOME search provider: the task multiplexer        *)
(* (kolibri-task-multiplexer.c) and the search provider that owns one      *)
(* multiplexer per live query (kolibri-gnome-search-provider.c), running   *)
(* on one GLib main loop. The result filter and the item id parsers are    *)
(* also run on their own, on every argument up to a bound (SpecFilter,     *)
(* SpecParse); so are the routing of object paths (SpecRouter) and the     *)
(* two handlers that launch Kolibri, next to the search calls              *)
(* (SpecActivate).                                                         *)
(*                                                                         *)
(* C strings are sequences of one-character strings, a nullable pointer is *)
(* a set with at most one element (NULL is the empty set).                 *)
(***************************************************************************)
EXTENDS Integers, Sequences, FiniteSets, TLC

\* Number of inbound search calls the model lets arrive.
MaxCalls == 3

\* Longest list of item ids and longest list of excluded channels given to
\* the filter, and longest item id given to the parser.
MaxItems == 3
MaxExclude == 2
MaxLen == 6

\* Number of calls the bus routes one after the other, and number of search
\* calls that arrive around the calls that launch Kolibri.
MaxRoutes == 2
MaxActivateCalls == 2

\* Number of calls that launch Kolibri.
MaxActivations == 1

\* Number of GetResultMetas calls.
MaxMetasCalls == 1

NULL == {}
Some(x) == {x}
Deref(p) == CHOOSE x \in p : TRUE

----------------------------------------------------------------------------
\* Strings

HasPrefix(s, p) == Len(s) >= Len(p) /\ SubSeq(s, 1, Len(p)) = p

\* g_strcmp0(a, b) == 0 on nullable strings.
g_strcmp0_eq(a, b) == a = b

\* Position of the first occurrence of the character d in s, 0 if none.
FirstIndex(s, d) ==
  IF \E i \in 1..Len(s) : s[i] = d
    THEN CHOOSE i \in 1..Len(s) : s[i] = d /\ \A j \in 1..(i - 1) : s[j] # d
    ELSE 0

\* g_strsplit(s, d, 2): no piece for the empty string, one piece when d does
\* not occur, else the part before the first d and everything after it.
g_strsplit_2(s, d) ==
  IF s = <<>> THEN <<>>
  ELSE IF FirstIndex(s, d) = 0 THEN <<s>>
  ELSE <<SubSeq(s, 1, FirstIndex(s, d) - 1),
         SubSeq(s, FirstIndex(s, d) + 1, Len(s))>>

RECURSIVE JoinFrom(_, _)
JoinFrom(terms, n) ==
  IF n > Len(terms) THEN <<>>
  ELSE IF n = Len(terms) THEN terms[n]
  ELSE terms[n] \o <<" ">> \o JoinFrom(terms, n + 1)

\* g_strjoinv(" ", terms)
g_strjoinv(terms) == JoinFrom(terms, 1)

\* SEARCH_PROVIDER_OBJECT_PATH: set by the build configuration; one segment.
SEARCH_PROVIDER_OBJECT_PATH == <<"/", "K">>

SEARCH_PROVIDER_CHANNEL_NODE_PREFIX ==
  <<"c", "h", "a", "n", "n", "e", "l", "_">>

SEARCH_PROVIDER_CHANNEL_OBJECT_PATH_PREFIX ==
  SEARCH_PROVIDER_OBJECT_PATH \o <<"/">> \o SEARCH_PROVIDER_CHANNEL_NODE_PREFIX

\* Mutant: the channel id keeps the node prefix.
get_channel_id_for_invocation_keeps_prefix(object_path) ==
  IF HasPrefix(object_path, SEARCH_PROVIDER_CHANNEL_OBJECT_PATH_PREFIX)
    THEN Some(SubSeq(object_path, Len(SEARCH_PROVIDER_OBJECT_PATH) + 2,
                     Len(object_path)))
    ELSE NULL

\* The channel id of an invocation: the rest of its object path after the
\* channel prefix, NULL when the path does not start with it.
get_channel_id_for_invocation(object_path) ==
  IF HasPrefix(object_path, SEARCH_PROVIDER_CHANNEL_OBJECT_PATH_PREFIX)
    THEN Some(SubSeq(object_path,
                     Len(SEARCH_PROVIDER_CHANNEL_OBJECT_PATH_PREFIX) + 1,
                     Len(object_path)))
    ELSE NULL

----------------------------------------------------------------------------
\* Item ids and the result filter

\* g_strsplit(s, d, -1): the pieces between every two occurrences of d.
RECURSIVE g_strsplit_all(_, _)
g_strsplit_all(s, d) ==
  IF s = <<>> THEN <<>>
  ELSE IF FirstIndex(s, d) = 0 THEN <<s>>
  ELSE IF FirstIndex(s, d) = Len(s) THEN <<SubSeq(s, 1, Len(s) - 1), <<>>>>
  ELSE <<SubSeq(s, 1, FirstIndex(s, d) - 1)>>
         \o g_strsplit_all(SubSeq(s, FirstIndex(s, d) + 1, Len(s)), d)

\* Mutant: the item id is split without a limit on the number of pieces.
parse_item_id_split_unlimited(item_id) ==
  IF item_id = NULL
    THEN [ok |-> TRUE, node_path |-> NULL, node_context |-> NULL,
          error |-> "none"]
  ELSE IF Len(g_strsplit_all(Deref(item_id), "?")) # 2
    THEN [ok |-> FALSE, node_path |-> NULL, node_context |-> NULL,
          error |-> "INVALID_ITEM_ID"]
  ELSE [ok |-> TRUE,
        node_path |-> Some(g_strsplit_all(Deref(item_id), "?")[1]),
        node_context |-> Some(g_strsplit_all(Deref(item_id), "?")[2]),
        error |-> "none"]

\* Mutant: the two pieces are stored in the wrong out parameters.
parse_item_id_swapped(item_id) ==
  IF item_id = NULL
    THEN [ok |-> TRUE, node_path |-> NULL, node_context |-> NULL,
          error |-> "none"]
  ELSE IF Len(g_strsplit_2(Deref(item_id), "?")) # 2
    THEN [ok |-> FALSE, node_path |-> NULL, node_context |-> NULL,
          error |-> "INVALID_ITEM_ID"]
  ELSE [ok |-> TRUE,
        node_path |-> Some(g_strsplit_2(Deref(item_id), "?")[2]),
        node_context |-> Some(g_strsplit_2(Deref(item_id), "?")[1]),
        error |-> "none"]

\* Mutant: the empty string is taken for an absent item id.
parse_item_id_empty_as_null(item_id) ==
  IF item_id = NULL \/ item_id = Some(<<>>)
    THEN [ok |-> TRUE, node_path |-> NULL, node_context |-> NULL,
          error |-> "none"]
  ELSE IF Len(g_strsplit_2(Deref(item_id), "?")) # 2
    THEN [ok |-> FALSE, node_path |-> NULL, node_context |-> NULL,
          error |-> "INVALID_ITEM_ID"]
  ELSE [ok |-> TRUE,
        node_path |-> Some(g_strsplit_2(Deref(item_id), "?")[1]),
        node_context |-> Some(g_strsplit_2(Deref(item_id), "?")[2]),
        error |-> "none"]

\* parse_item_id: [ok, node_path, node_context, error]; a NULL id parses to
\* NULLs, any other id is split at its first "?" and must give two pieces.
parse_item_id(item_id) ==
  IF item_id = NULL
    THEN [ok |-> TRUE, node_path |-> NULL, node_context |-> NULL,
          error |-> "none"]
  ELSE IF Len(g_strsplit_2(Deref(item_id), "?")) # 2
    THEN [ok |-> FALSE, node_path |-> NULL, node_context |-> NULL,
          error |-> "INVALID_ITEM_ID"]
  ELSE [ok |-> TRUE,
        node_path |-> Some(g_strsplit_2(Deref(item_id), "?")[1]),
        node_context |-> Some(g_strsplit_2(Deref(item_id), "?")[2]),
        error |-> "none"]

\* Mutant: the node path is split without a limit on the number of pieces.
parse_node_path_split_unlimited(node_path) ==
  IF node_path = NULL
    THEN [ok |-> TRUE, node_kind |-> NULL, node_id |-> NULL, error |-> "none"]
  ELSE IF Len(g_strsplit_all(Deref(node_path), "/")) # 2
    THEN [ok |-> FALSE, node_kind |-> NULL, node_id |-> NULL,
          error |-> "INVALID_NODE_PATH"]
  ELSE [ok |-> TRUE,
        node_kind |-> Some(g_strsplit_all(Deref(node_path), "/")[1]),
        node_id |-> Some(g_strsplit_all(Deref(node_path), "/")[2]),
        error |-> "none"]

\* parse_node_path: [ok, node_kind, node_id, error]; a NULL path parses to
\* NULLs, any other path is split at its first "/" and must give two pieces.
parse_node_path(node_path) ==
  IF node_path = NULL
    THEN [ok |-> TRUE, node_kind |-> NULL, node_id |-> NULL, error |-> "none"]
  ELSE IF Len(g_strsplit_2(Deref(node_path), "/")) # 2
    THEN [ok |-> FALSE, node_kind |-> NULL, node_id |-> NULL,
          error |-> "INVALID_NODE_PATH"]
  ELSE [ok |-> TRUE,
        node_kind |-> Some(g_strsplit_2(Deref(node_path), "/")[1]),
        node_id |-> Some(g_strsplit_2(Deref(node_path), "/")[2]),
        error |-> "none"]

\* g_strv_contains
g_strv_contains(strv, s) == \E i \in 1..Len(strv) : strv[i] = s

\* Mutant: the channel root node is not held back from its own channel.
filter_item_id_for_channel_keeps_root(item_id, channel_id, exclude_channel_ids) ==
  LET parsed == parse_item_id(Some(item_id))
      path == parse_node_path(parsed.node_path)
  IN  IF ~parsed.ok THEN FALSE
      ELSE IF ~path.ok THEN FALSE
      ELSE IF channel_id # NULL
        THEN g_strcmp0_eq(parsed.node_context, channel_id)
      ELSE IF exclude_channel_ids = NULL THEN TRUE
      ELSE ~g_strv_contains(Deref(exclude_channel_ids),
                            Deref(parsed.node_context))

\* Mutant: the root node of an excluded channel is let through.
filter_item_id_for_channel_readmits_root(item_id, channel_id, exclude_channel_ids) ==
  LET parsed == parse_item_id(Some(item_id))
      path == parse_node_path(parsed.node_path)
      is_channel_root == g_strcmp0_eq(path.node_id, parsed.node_context)
  IN  IF ~parsed.ok THEN FALSE
      ELSE IF ~path.ok THEN FALSE
      ELSE IF channel_id # NULL
        THEN g_strcmp0_eq(parsed.node_context, channel_id) /\ ~is_channel_root
      ELSE IF exclude_channel_ids = NULL THEN TRUE
      ELSE \/ ~g_strv_contains(Deref(exclude_channel_ids),
                               Deref(parsed.node_context))
           \/ is_channel_root

\* Mutant: an item id that does not parse is kept.
filter_item_id_for_channel_keeps_undecodable(item_id, channel_id, exclude_channel_ids) ==
  LET parsed == parse_item_id(Some(item_id))
      path == parse_node_path(parsed.node_path)
      is_channel_root == g_strcmp0_eq(path.node_id, parsed.node_context)
  IN  IF ~parsed.ok THEN TRUE
      ELSE IF ~path.ok THEN TRUE
      ELSE IF channel_id # NULL
        THEN g_strcmp0_eq(parsed.node_context, channel_id) /\ ~is_channel_root
      ELSE IF exclude_channel_ids # NULL
        THEN ~g_strv_contains(Deref(exclude_channel_ids),
                              Deref(parsed.node_context))
      ELSE TRUE

\* Mutant: without a channel, the item id is kept before it is parsed.
filter_item_id_for_channel_unparsed(item_id, channel_id, exclude_channel_ids) ==
  LET parsed == parse_item_id(Some(item_id))
      path == parse_node_path(parsed.node_path)
      is_channel_root == g_strcmp0_eq(path.node_id, parsed.node_context)
  IN  IF channel_id = NULL /\ exclude_channel_ids = NULL THEN TRUE
      ELSE IF ~parsed.ok THEN FALSE
      ELSE IF ~path.ok THEN FALSE
      ELSE IF channel_id # NULL
        THEN g_strcmp0_eq(parsed.node_context, channel_id) /\ ~is_channel_root
      ELSE ~g_strv_contains(Deref(exclude_channel_ids),
                            Deref(parsed.node_context))

\* filter_item_id_for_channel: item_id is a string, channel_id a nullable
\* string and exclude_channel_ids a nullable string vector.
filter_item_id_for_channel(item_id, channel_id, exclude_channel_ids) ==
  LET parsed == parse_item_id(Some(item_id))
      path == parse_node_path(parsed.node_path)
      is_channel_root == g_strcmp0_eq(path.node_id, parsed.node_context)
  IN  IF ~parsed.ok THEN FALSE
      ELSE IF ~path.ok THEN FALSE
      ELSE IF channel_id # NULL
        THEN g_strcmp0_eq(parsed.node_context, channel_id) /\ ~is_channel_root
      ELSE IF exclude_channel_ids = NULL THEN TRUE
      ELSE ~g_strv_contains(Deref(exclude_channel_ids),
                            Deref(parsed.node_context))

\* Mutant: the kept item ids are prepended to the result.
filter_item_ids_reversed(all_item_ids, channel_id, exclude_channel_ids) ==
  LET kept == SelectSeq(all_item_ids,
                        LAMBDA item_id :
                          filter_item_id_for_channel(item_id, channel_id,
                                                     exclude_channel_ids))
  IN  [n \in 1..Len(kept) |-> kept[Len(kept) + 1 - n]]

\* filter_item_ids: the kept item ids, in input order.
filter_item_ids(all_item_ids, channel_id, exclude_channel_ids) ==
  SelectSeq(all_item_ids,
            LAMBDA item_id :
              filter_item_id_for_channel(item_id, channel_id, exclude_channel_ids))

----------------------------------------------------------------------------
\* Inputs

\* Words of a search, and the term lists an inbound call may carry.
WordX == <<"x">>
WordY == <<"y">>
TermLists == {<<WordX>>, <<WordY>>}

ChannelA == <<"a">>
ChannelB == <<"b">>

\* Object paths the bus dispatches to the search provider interface.
ObjectPaths ==
  {SEARCH_PROVIDER_OBJECT_PATH,
   SEARCH_PROVIDER_CHANNEL_OBJECT_PATH_PREFIX \o ChannelA,
   SEARCH_PROVIDER_CHANNEL_OBJECT_PATH_PREFIX \o ChannelB}

\* Item ids the catalog may answer with: the root node of channel a, a node
\* of channel a and a node of channel b.
ItemRootA == <<"t", "/", "a", "?", "a">>
ItemNodeA == <<"v", "/", "1", "?", "a">>
ItemNodeB == <<"v", "/", "2", "?", "b">>
Payloads == {<<ItemRootA, ItemNodeA, ItemNodeB>>}

\* Item ids given to the filter: the ones above, the root node of channel b,
\* one whose node id and one whose origin channel holds a separator, and
\* ones that do not parse (no "?", no "/" before the "?", the empty string).
ItemRootB == <<"t", "/", "b", "?", "b">>
ItemDeepNodeA == <<"v", "/", "1", "/", "a", "?", "a">>
ItemTwoContexts == <<"v", "/", "1", "?", "a", "?", "b">>
ItemNoContext == <<"v", "/", "1">>
ItemNoKind == <<"v", "?", "a">>
ItemEmpty == <<>>
ItemIds ==
  {ItemRootA, ItemNodeA, ItemNodeB, ItemRootB, ItemDeepNodeA, ItemTwoContexts,
   ItemNoContext, ItemNoKind, ItemEmpty}

\* Sequences of at most n elements of set.
SeqUpTo(set, n) == UNION {[1..m -> set] : m \in 0..n}

\* The arguments of filter_item_ids: a list of item ids, a channel id or
\* NULL, and a list of excluded channel ids or NULL.
ItemIdLists == SeqUpTo(ItemIds, MaxItems)
ChannelIds == {NULL, Some(ChannelA), Some(ChannelB)}
ExcludeLists ==
  {NULL} \cup {Some(e) : e \in SeqUpTo({ChannelA, ChannelB}, MaxExclude)}

\* The argument of parse_item_id: NULL, or any string of letters and the
\* two separators.
Alphabet == {"a", "b", "/", "?"}
ItemIdStrings == {NULL} \cup {Some(str) : str \in SeqUpTo(Alphabet, MaxLen)}

\* The outcome of a task or of a call: a value or an error.
Ok(v) == [ok |-> TRUE, value |-> v, error |-> "none"]
Err(e) == [ok |-> FALSE, value |-> <<>>, error |-> e]

\* What the catalog service may answer to GetItemIdsForSearch.
UpstreamOutcomes == {Err("UpstreamError")} \cup {Ok(p) : p \in Payloads}

----------------------------------------------------------------------------
\* Object paths on the bus

\* The name of the interface of self->search_provider_skeleton, and of an
\* interface GApplication exports on the same object path.
SearchProviderInterface == "org.gnome.Shell.SearchProvider2"
ApplicationInterface == "org.gtk.Application"
InterfaceNames == {SearchProviderInterface, ApplicationInterface}

\* The flag the subtree is registered with.
G_DBUS_SUBTREE_FLAGS_DISPATCH_TO_UNENUMERATED_NODES == TRUE

\* Position of the last occurrence of the character d in s, 0 if none.
LastIndex(s, d) ==
  IF \E i \in 1..Len(s) : s[i] = d
    THEN CHOOSE i \in 1..Len(s) : s[i] = d /\ \A j \in (i + 1)..Len(s) : s[j] # d
    ELSE 0

\* Mutant: the subtree lists the node of channel a.
subtree_enumerate_lists_channels(object_path) ==
  <<SEARCH_PROVIDER_CHANNEL_NODE_PREFIX \o ChannelA>>

\* subtree_enumerate: NULL, that is no child node.
subtree_enumerate(object_path) == <<>>

\* subtree_introspect: the interfaces of a node of the subtree.
subtree_introspect(node) ==
  IF node # NULL /\ HasPrefix(Deref(node), SEARCH_PROVIDER_CHANNEL_NODE_PREFIX)
    THEN <<SearchProviderInterface>>
    ELSE <<>>

\* subtree_dispatch: the skeleton whose vtable handles a call on a node of
\* the subtree, NULL when there is none.
subtree_dispatch(interface_name, node) ==
  IF /\ node # NULL
     /\ HasPrefix(Deref(node), SEARCH_PROVIDER_CHANNEL_NODE_PREFIX)
     /\ g_strcmp0_eq(Some(interface_name), Some(SearchProviderInterface))
    THEN Some("search_provider_skeleton")
    ELSE NULL

\* The object registered on object_path has the search provider interface.
registered_object(object_path, interface_name) ==
  /\ object_path = SEARCH_PROVIDER_OBJECT_PATH
  /\ interface_name = SearchProviderInterface

\* The subtree registered on SEARCH_PROVIDER_OBJECT_PATH is asked about that
\* path and about the paths one segment below it.
in_subtree(object_path) ==
  \/ object_path = SEARCH_PROVIDER_OBJECT_PATH
  \/ /\ LastIndex(object_path, "/") > 1
     /\ SubSeq(object_path, 1, LastIndex(object_path, "/") - 1)
          = SEARCH_PROVIDER_OBJECT_PATH

\* The node the subtree is asked about: NULL for its root, else the last
\* segment of the path.
subtree_node(object_path) ==
  IF object_path = SEARCH_PROVIDER_OBJECT_PATH
    THEN NULL
    ELSE Some(SubSeq(object_path, LastIndex(object_path, "/") + 1,
                     Len(object_path)))

\* The subtree answers for the node: it is the root, or it is enumerated, or
\* the subtree was registered to dispatch to nodes it does not enumerate.
subtree_answers(object_path) ==
  \/ G_DBUS_SUBTREE_FLAGS_DISPATCH_TO_UNENUMERATED_NODES
  \/ subtree_node(object_path) = NULL
  \/ g_strv_contains(subtree_enumerate(SEARCH_PROVIDER_OBJECT_PATH),
                     Deref(subtree_node(object_path)))

\* The handler the connection finds for a method call: the registered
\* object, else the subtree when it introspects the interface on the node
\* and dispatches it; NULL when the call has no handler.
distribute_method_call(object_path, interface_name) ==
  IF registered_object(object_path, interface_name)
    THEN Some("search_provider_skeleton")
  ELSE IF /\ in_subtree(object_path)
          /\ subtree_answers(object_path)
          /\ g_strv_contains(subtree_introspect(subtree_node(object_path)),
                             interface_name)
    THEN subtree_dispatch(interface_name, subtree_node(object_path))
  ELSE NULL

\* A method call routed by the connection: its handler and, when it has
\* one, the channel id the handler works out for the invocation.
MethodCall(object_path, interface_name) ==
  [kind |-> "call", object_path |-> object_path,
   interface_name |-> interface_name,
   handler |-> distribute_method_call(object_path, interface_name),
   channel_id |->
     IF distribute_method_call(object_path, interface_name) # NULL
       THEN get_channel_id_for_invocation(object_path)
       ELSE NULL,
   interfaces |-> <<>>, children |-> <<>>]

\* The introspection of an object path: the search provider's interfaces
\* on it and its child nodes.
Introspection(object_path) ==
  [kind |-> "introspect", object_path |-> object_path,
   interface_name |-> "org.freedesktop.DBus.Introspectable",
   handler |-> NULL, channel_id |-> NULL,
   interfaces |->
     IF object_path = SEARCH_PROVIDER_OBJECT_PATH
       THEN <<SearchProviderInterface>>
     ELSE IF in_subtree(object_path) /\ subtree_answers(object_path)
       THEN subtree_introspect(subtree_node(object_path))
     ELSE <<>>,
   children |->
     IF object_path = SEARCH_PROVIDER_OBJECT_PATH
       THEN subtree_enumerate(object_path)
       ELSE <<>>]

\* Object paths of calls: the base path, nodes below it that are the channel
\* prefix, whole or cut short, with a short tail, a node below such a node,
\* and a path outside the base path.
RouteTails == SeqUpTo({"a", "b"}, 1)
RouteNodes ==
  {SubSeq(SEARCH_PROVIDER_CHANNEL_NODE_PREFIX, 1, k) \o tail :
     k \in {0, Len(SEARCH_PROVIDER_CHANNEL_NODE_PREFIX) - 1,
            Len(SEARCH_PROVIDER_CHANNEL_NODE_PREFIX)},
     tail \in RouteTails} \ {<<>>}
RoutePaths ==
  {SEARCH_PROVIDER_OBJECT_PATH}
    \cup {SEARCH_PROVIDER_OBJECT_PATH \o <<"/">> \o node : node \in RouteNodes}
    \cup {SEARCH_PROVIDER_CHANNEL_OBJECT_PATH_PREFIX \o ChannelA \o <<"/">>
            \o SEARCH_PROVIDER_CHANNEL_NODE_PREFIX \o ChannelB,
          <<"/", "O", "/">> \o SEARCH_PROVIDER_CHANNEL_NODE_PREFIX \o ChannelA}

----------------------------------------------------------------------------
\* The URI that launches Kolibri

\* DISPATCH_URI_SCHEME: set by the build configuration.
DISPATCH_URI_SCHEME == <<"x", "-", "k">>

\* The reserved characters g_uri_to_string leaves as they are in a host, in
\* a path and in a query.
SubcomponentDelimiters ==
  {"!", "$", "&", "'", "(", ")", "*", "+", ",", ";", "="}
HostAllowedChars == SubcomponentDelimiters
PathAllowedChars == SubcomponentDelimiters \cup {":", "@", "/"}
QueryAllowedChars == PathAllowedChars \cup {"?"}

\* The characters that are neither letters, digits nor one of "-._~", of
\* those that strings of the model are made of, with their escape sequence.
PercentEscapes ==
  [ch \in {" ", "/", "?", ":", "="} |->
     CASE ch = " " -> <<"%", "2", "0">>
       [] ch = "/" -> <<"%", "2", "F">>
       [] ch = "?" -> <<"%", "3", "F">>
       [] ch = ":" -> <<"%", "3", "A">>
       [] ch = "=" -> <<"%", "3", "D">>]

\* g_string_append_uri_escaped: every character that is not unreserved and
\* not allowed is replaced by its escape sequence.
RECURSIVE EscapedFrom(_, _, _)
EscapedFrom(str, reserved_chars_allowed, n) ==
  IF n > Len(str) THEN <<>>
  ELSE (IF str[n] \in DOMAIN PercentEscapes /\ str[n] \notin reserved_chars_allowed
          THEN PercentEscapes[str[n]]
          ELSE <<str[n]>>)
         \o EscapedFrom(str, reserved_chars_allowed, n + 1)

g_string_append_uri_escaped(str, reserved_chars_allowed) ==
  EscapedFrom(str, reserved_chars_allowed, 1)

\* g_uri_build with no user and no port.
g_uri_build(scheme, host, path, query) ==
  [scheme |-> scheme, host |-> host, path |-> path, query |-> query]

\* g_uri_to_string: the scheme and ":", "//" and the host when there is a
\* host, the path, "?" and the query when there is a query.
g_uri_to_string(uri) ==
  uri.scheme \o <<":">>
    \o (IF uri.host # NULL
          THEN <<"/", "/">>
                 \o g_string_append_uri_escaped(Deref(uri.host), HostAllowedChars)
          ELSE <<>>)
    \o g_string_append_uri_escaped(uri.path, PathAllowedChars)
    \o (IF uri.query # NULL
          THEN <<"?">>
                 \o g_string_append_uri_escaped(Deref(uri.query), QueryAllowedChars)
          ELSE <<>>)

\* Mutant: the item's channel is not compared with the invocation's.
build_kolibri_dispatch_uri_any_channel(channel_id, item_id, query) ==
  LET item == parse_item_id(item_id)
  IN  IF ~item.ok
        THEN [ok |-> FALSE, kolibri_uri |-> NULL, error |-> item.error]
      ELSE [ok |-> TRUE,
            kolibri_uri |->
              Some(g_uri_build(
                     DISPATCH_URI_SCHEME, channel_id,
                     IF item.node_path # NULL
                       THEN <<"/">> \o Deref(item.node_path)
                       ELSE <<>>,
                     IF query # NULL
                       THEN Some(<<"s", "e", "a", "r", "c", "h", "=">>
                                   \o Deref(query))
                       ELSE NULL)),
            error |-> "none"]

\* Mutant: the path of the URI is the whole item id.
build_kolibri_dispatch_uri_whole_item_id(channel_id, item_id, query) ==
  LET item == parse_item_id(item_id)
  IN  IF ~item.ok
        THEN [ok |-> FALSE, kolibri_uri |-> NULL, error |-> item.error]
      ELSE IF /\ item_id # NULL
              /\ channel_id # NULL
              /\ ~g_strcmp0_eq(item.node_context, channel_id)
        THEN [ok |-> FALSE, kolibri_uri |-> NULL, error |-> "WRONG_CHANNEL"]
      ELSE [ok |-> TRUE,
            kolibri_uri |->
              Some(g_uri_build(
                     DISPATCH_URI_SCHEME, channel_id,
                     IF item_id # NULL THEN <<"/">> \o Deref(item_id) ELSE <<>>,
                     IF query # NULL
                       THEN Some(<<"s", "e", "a", "r", "c", "h", "=">>
                                   \o Deref(query))
                       ELSE NULL)),
            error |-> "none"]

\* build_kolibri_dispatch_uri: the item id is parsed; an item of another
\* channel than the invocation's is refused; the URI has the channel id as
\* its host, "/" and the node path as its path and "search=" and the query
\* as its query.
build_kolibri_dispatch_uri(channel_id, item_id, query) ==
  LET item == parse_item_id(item_id)
  IN  IF ~item.ok
        THEN [ok |-> FALSE, kolibri_uri |-> NULL, error |-> item.error]
      ELSE IF /\ item_id # NULL
              /\ channel_id # NULL
              /\ ~g_strcmp0_eq(item.node_context, channel_id)
        THEN [ok |-> FALSE, kolibri_uri |-> NULL, error |-> "WRONG_CHANNEL"]
      ELSE [ok |-> TRUE,
            kolibri_uri |->
              Some(g_uri_build(
                     DISPATCH_URI_SCHEME, channel_id,
                     IF item.node_path # NULL
                       THEN <<"/">> \o Deref(item.node_path)
                       ELSE <<>>,
                     IF query # NULL
                       THEN Some(<<"s", "e", "a", "r", "c", "h", "=">>
                                   \o Deref(query))
                       ELSE NULL)),
            error |-> "none"]

\* What launching the launcher's desktop file may come to: it is launched,
\* the launch fails with an error, or there is no such desktop file and the
\* launch fails with no error set.
LaunchOutcomes == {"launched", "LaunchError", "NoAppInfo"}

\* activate_kolibri: the URI is built and its string given to the launcher;
\* launch is what the launch comes to. error is NULL when no error is set.
activate_kolibri(channel_id, item_id, query, launch) ==
  LET built == build_kolibri_dispatch_uri(channel_id, item_id, query)
  IN  IF ~built.ok
        THEN [ok |-> FALSE, error |-> Some(built.error), uris_list |-> <<>>,
              launch |-> "none"]
      ELSE [ok |-> launch = "launched",
            error |-> IF launch = "LaunchError" THEN Some("LaunchError") ELSE NULL,
            uris_list |-> <<g_uri_to_string(Deref(built.kolibri_uri))>>,
            launch |-> launch]

\* A call of LaunchSearch or ActivateResult as its handler leaves it: the
\* URIs given to the launcher, what the launch came to, and the reply sent
\* (none when the launch failed with no error set); number counts the calls.
Activation(number, method, object_path, item_id, terms, launch) ==
  LET done == activate_kolibri(get_channel_id_for_invocation(object_path),
                               item_id, Some(g_strjoinv(terms)), launch)
  IN  [number |-> number, method |-> method, object_path |-> object_path,
       item_id |-> item_id, query |-> g_strjoinv(terms),
       uris_list |-> done.uris_list, launch |-> done.launch,
       reply |-> IF done.ok THEN Some(Ok(<<>>))
                 ELSE IF done.error # NULL THEN Some(Err(Deref(done.error)))
                 ELSE NULL]

\* No call of LaunchSearch or ActivateResult yet.
NoActivation ==
  [number |-> 0, method |-> "none", object_path |-> <<>>, item_id |-> NULL,
   query |-> <<>>, uris_list |-> <<>>, launch |-> "none", reply |-> NULL]

\* The terms of a call that launches Kolibri: one word or two, and the
\* results it may name: the items above and one with a space in its node id.
ActivateTermLists == {<<WordX>>, <<WordX, WordY>>}
ItemSpaceNodeA == <<"v", "/", " ", "?", "a">>
ActivateItemIds ==
  {ItemNodeA, ItemNodeB, ItemSpaceNodeA, ItemTwoContexts, ItemNoContext,
   ItemEmpty}

----------------------------------------------------------------------------
\* The bus the Kolibri daemon is expected on

G_BUS_TYPE_SYSTEM == "G_BUS_TYPE_SYSTEM"
G_BUS_TYPE_SESSION == "G_BUS_TYPE_SESSION"

USE_SYSTEM_INSTANCE == "KOLIBRI_USE_SYSTEM_INSTANCE"
FORCE_USE_SYSTEM_INSTANCE == "KOLIBRI_FORCE_USE_SYSTEM_INSTANCE"
KOLIBRI_HOME == "KOLIBRI_HOME"

\* g_get_home_dir
HomeDir == <<"/", "h">>

ContentName == <<"c", "o", "n", "t", "e", "n", "t">>
DatabaseName == <<"d", "b", ".", "s", "q", "l", "i", "t", "e", "3">>
DefaultKolibriName == <<".", "k", "o", "l", "i", "b", "r", "i">>

RECURSIVE StripLeading(_, _)
StripLeading(s, ch) ==
  IF s # <<>> /\ Head(s) = ch THEN StripLeading(Tail(s), ch) ELSE s

RECURSIVE StripTrailing(_, _)
StripTrailing(s, ch) ==
  IF s # <<>> /\ s[Len(s)] = ch
    THEN StripTrailing(SubSeq(s, 1, Len(s) - 1), ch)
    ELSE s

\* g_build_path("/", first, second, NULL): empty elements are skipped, and
\* exactly one separator stands between the two elements.
g_build_path(first, second) ==
  IF first = <<>> THEN second
  ELSE IF second = <<>> THEN first
  ELSE StripTrailing(first, "/") \o <<"/">> \o StripLeading(second, "/")

\* expanduser; path is a nullable string.
expanduser(path) ==
  IF path = NULL THEN NULL
  ELSE LET path_split == g_strsplit_2(Deref(path), "/")
       IN IF Len(path_split) = 0 THEN path
          ELSE IF path_split[1] # <<"~">> THEN path
          ELSE IF Len(path_split) = 1 THEN Some(HomeDir)
          ELSE Some(g_build_path(HomeDir, path_split[2]))

\* g_getenv; env maps the name of a variable to its nullable value.
g_getenv(env, name) == env[name]

\* kolibri_home_dir
kolibri_home_dir(env) ==
  LET kolibri_home == expanduser(g_getenv(env, KOLIBRI_HOME))
  IN IF kolibri_home = NULL \/ Deref(kolibri_home) = <<>>
       THEN g_build_path(HomeDir, DefaultKolibriName)
       ELSE Deref(kolibri_home)

\* kolibri_file_exists; files is the set of paths that exist.
kolibri_file_exists(files, kolibri_home, check_file_name) ==
  g_build_path(kolibri_home, check_file_name) \in files

\* local_kolibri_exists
local_kolibri_exists(env, files) ==
  LET kolibri_home == kolibri_home_dir(env)
  IN /\ kolibri_file_exists(files, kolibri_home, ContentName)
     /\ kolibri_file_exists(files, kolibri_home, DatabaseName)

\* getenv_boolean: the variable it reads is USE_SYSTEM_INSTANCE whatever
\* name it is given.
getenv_boolean(env, name) ==
  LET value == g_getenv(env, USE_SYSTEM_INSTANCE)
  IN value # NULL /\ Deref(value) # <<>>

\* kolibri_daemon_get_default_bus_type
kolibri_daemon_get_default_bus_type(env, files) ==
  LET use_system_instance == getenv_boolean(env, USE_SYSTEM_INSTANCE)
      force_use_system_instance ==
        getenv_boolean(env, FORCE_USE_SYSTEM_INSTANCE)
  IN IF force_use_system_instance THEN G_BUS_TYPE_SYSTEM
     ELSE IF use_system_instance /\ local_kolibri_exists(env, files)
       THEN G_BUS_TYPE_SESSION
     ELSE IF use_system_instance THEN G_BUS_TYPE_SYSTEM
     ELSE G_BUS_TYPE_SESSION

\* The values an environment variable that is a flag may have.
FlagValues == {NULL, Some(<<>>), Some(<<"1">>)}

\* The values of KOLIBRI_HOME.
KolibriHomeValues ==
  {NULL, Some(<<>>), Some(<<"~">>), Some(<<"~", "/", "k">>),
   Some(<<"/", "k">>)}

\* The directories that may hold Kolibri data, and the files in them.
DataDirs ==
  {g_build_path(HomeDir, DefaultKolibriName), <<"/", "k">>,
   g_build_path(HomeDir, <<"k">>)}
DataFiles ==
  {g_build_path(d, f) : d \in DataDirs, f \in {ContentName, DatabaseName}}

\* A process with its environment and the files that exist, and the bus
\* type it has computed, if it has.
BusRun(use, force, home, files) ==
  [env |-> (USE_SYSTEM_INSTANCE :> use) @@ (FORCE_USE_SYSTEM_INSTANCE :> force)
             @@ (KOLIBRI_HOME :> home),
   files |-> files,
   bus_type |-> NULL]

----------------------------------------------------------------------------
\* The inactivity timeout of the application

\* kolibri_gnome_search_provider_application_reset_inactivity_timeout: the
\* application is held and released, which starts its inactivity timeout
\* anew.
reset_inactivity_timeout(timeout) == "restarted"

\* kolibri_gnome_search_provider_on_method_called
on_method_called(timeout) == reset_inactivity_timeout(timeout)

\* g_signal_emit of method-called: its one handler runs.
g_signal_emit_method_called(timeout) == on_method_called(timeout)

----------------------------------------------------------------------------
\* State

VARIABLES
  search_multiplexer,        \* self->search_multiplexer: NULL or a multiplexer
  search_multiplexer_query,  \* self->search_multiplexer_query: NULL or a string
  muxes,          \* every KolibriTaskMultiplexer created, by creation order
  cancellable,    \* cancellable[m]: the GCancellable of multiplexer m is cancelled
  calls,          \* inbound search invocations with their next task
  upstream,       \* GetItemIdsForSearch calls issued to the catalog service
  idle,           \* task completions queued for this main loop iteration
  idle_new,       \* task completions queued for the next iteration
  created_now,    \* tasks created during this main loop iteration
  reply_log,      \* invocations in the order they were answered
  assert_failed,  \* a g_assert failed: the process has aborted
  filter_run,     \* a call of filter_item_ids: its arguments and its result
  parse_run,      \* a call of parse_item_id, then parse_node_path, with results
  routed,         \* the calls the connection has routed, with what came of them
  activation,     \* the last call of LaunchSearch or ActivateResult
  metas,          \* GetResultMetas invocations with their upstream call
  inactivity_timeout,  \* the application's inactivity timeout
  bus_run         \* a call of kolibri_daemon_get_default_bus_type

provider_vars == <<search_multiplexer, search_multiplexer_query, muxes,
                   cancellable, calls, upstream, idle, idle_new, created_now,
                   reply_log, assert_failed>>

vars == <<search_multiplexer, search_multiplexer_query, muxes, cancellable,
          calls, upstream, idle, idle_new, created_now, reply_log,
          assert_failed, filter_run, parse_run, routed, activation, metas,
          inactivity_timeout, bus_run>>

MainTask(m) == [kind |-> "main", id |-> m]
NextTask(c) == [kind |-> "next", id |-> c]

\* g_task_new: a task that has not returned; its cancellable may be NULL.
g_task_new(task_cancellable) ==
  [ever_returned |-> FALSE, completed |-> FALSE, result |-> NULL,
   cancellable |-> task_cancellable]

\* g_task_get_completed
g_task_get_completed(task) == task.completed

\* Mutant: no cancellable is ever seen as cancelled.
g_cancellable_is_cancelled_never(canc, c) == FALSE

\* g_cancellable_is_cancelled on a nullable cancellable.
g_cancellable_is_cancelled(canc, c) == c # NULL /\ canc[Deref(c)]

\* g_task_propagate_pointer: a task whose cancellable is cancelled yields the
\* cancelled error whatever it was returned.
g_task_propagate_pointer(task, canc) ==
  IF g_cancellable_is_cancelled(canc, task.cancellable)
    THEN Err("Cancelled")
    ELSE Deref(task.result)

\* g_task_return_pointer / g_task_return_error complete the task at once when
\* it was created in an earlier main loop iteration and is not cancelled;
\* otherwise the callback runs from an idle source in the next iteration.
g_task_returns_now(task_id, task, canc, now) ==
  /\ task_id \notin now
  /\ ~g_cancellable_is_cancelled(canc, task.cancellable)

\* Mutant: the main task is created without the multiplexer as its source
\* object, so it holds no reference on it.
kolibri_task_multiplexer_new_unowned(m) ==
  [main_task |-> Some(g_task_new(Some(m))), next_tasks |-> <<>>,
   ref_count |-> 1, disposed |-> FALSE, pushes |-> 0]

\* kolibri_task_multiplexer_new: main task with a fresh cancellable, empty
\* list of next tasks. The main task holds a reference on the multiplexer
\* (its source object) beside the creator's.
kolibri_task_multiplexer_new(m) ==
  [main_task |-> Some(g_task_new(Some(m))), next_tasks |-> <<>>,
   ref_count |-> 2, disposed |-> FALSE, pushes |-> 0]

\* kolibri_task_multiplexer_get_cancellable
kolibri_task_multiplexer_get_cancellable(mux) ==
  IF mux.main_task = NULL THEN NULL ELSE Deref(mux.main_task).cancellable

\* Mutant: the test of the main task is inverted.
kolibri_task_multiplexer_get_completed_inverted(mux) ==
  mux.main_task # NULL

\* kolibri_task_multiplexer_get_completed
kolibri_task_multiplexer_get_completed(mux) ==
  mux.main_task = NULL \/ g_task_get_completed(Deref(mux.main_task))

\* Mutant: the cancellable is not cancelled.
kolibri_task_multiplexer_cancel_skipped(canc, mux) == canc

\* kolibri_task_multiplexer_cancel: the cancellables after cancelling mux.
kolibri_task_multiplexer_cancel(canc, mux) ==
  IF kolibri_task_multiplexer_get_cancellable(mux) # NULL
    THEN [canc EXCEPT ![Deref(kolibri_task_multiplexer_get_cancellable(mux))] = TRUE]
    ELSE canc

\* Mutant: the list of next tasks is not emptied.
g_list_store_remove_all_kept(next_tasks) == next_tasks

\* g_list_store_remove_all
g_list_store_remove_all(next_tasks) == <<>>

\* kolibri_task_multiplexer_dispose
kolibri_task_multiplexer_dispose(mux) ==
  [mux EXCEPT !.next_tasks = g_list_store_remove_all(@), !.main_task = NULL,
              !.disposed = TRUE]

\* Mutant: the multiplexer is disposed by the first unref.
g_object_unref_disposing(mux) ==
  kolibri_task_multiplexer_dispose([mux EXCEPT !.ref_count = 0])

\* g_object_unref of a multiplexer: disposed when the last reference goes.
g_object_unref(mux) ==
  IF mux.ref_count = 1
    THEN kolibri_task_multiplexer_dispose([mux EXCEPT !.ref_count = 0])
    ELSE [mux EXCEPT !.ref_count = @ - 1]

\* Mutant: the new next task is put at the head of the list.
kolibri_task_multiplexer_add_next_prepended(mux, c) ==
  [mux EXCEPT !.next_tasks = <<c>> \o @]

\* kolibri_task_multiplexer_add_next: the new next task shares the
\* multiplexer's cancellable and is appended to the list of next tasks.
add_next_task(mux) == g_task_new(kolibri_task_multiplexer_get_cancellable(mux))

kolibri_task_multiplexer_add_next(mux, c) ==
  [mux EXCEPT !.next_tasks = Append(@, c)]

\* Mutant: a call with the empty query is never attached.
can_attach_search_unless_empty(query) ==
  /\ ~kolibri_task_multiplexer_get_completed(muxes[Deref(search_multiplexer)])
  /\ g_strcmp0_eq(search_multiplexer_query, Some(query))
  /\ query # <<>>

\* Mutant: the result of the string comparison is tested the wrong way round.
can_attach_search_other_query(query) ==
  /\ ~kolibri_task_multiplexer_get_completed(muxes[Deref(search_multiplexer)])
  /\ ~g_strcmp0_eq(search_multiplexer_query, Some(query))

\* Mutant: a completed multiplexer is attached to when the query matches.
can_attach_search_when_completed(query) ==
  g_strcmp0_eq(search_multiplexer_query, Some(query))

\* kolibri_gnome_search_provider_can_attach_search
kolibri_gnome_search_provider_can_attach_search(query) ==
  /\ ~kolibri_task_multiplexer_get_completed(muxes[Deref(search_multiplexer)])
  /\ g_strcmp0_eq(search_multiplexer_query, Some(query))

\* Mutant: replacing the multiplexer keeps the query recorded for the old one.
get_search_multiplexer_stale_query(query) ==
  IF search_multiplexer = NULL
    THEN [is_new |-> TRUE,
          search_multiplexer |-> Some(Len(muxes) + 1),
          search_multiplexer_query |-> Some(query),
          muxes |-> Append(muxes, kolibri_task_multiplexer_new(Len(muxes) + 1)),
          cancellable |-> Append(cancellable, FALSE)]
  ELSE IF ~kolibri_gnome_search_provider_can_attach_search(query)
    THEN [is_new |-> TRUE,
          search_multiplexer |-> Some(Len(muxes) + 1),
          search_multiplexer_query |-> search_multiplexer_query,
          muxes |-> Append([muxes EXCEPT ![Deref(search_multiplexer)] =
                                           g_object_unref(@)],
                           kolibri_task_multiplexer_new(Len(muxes) + 1)),
          cancellable |->
            Append(kolibri_task_multiplexer_cancel(
                     cancellable, muxes[Deref(search_multiplexer)]),
                   FALSE)]
  ELSE [is_new |-> FALSE,
        search_multiplexer |-> search_multiplexer,
        search_multiplexer_query |-> search_multiplexer_query,
        muxes |-> muxes,
        cancellable |-> cancellable]

\* Mutant: the multiplexer that is kept is reported as a new one.
get_search_multiplexer_always_new(query) ==
  IF search_multiplexer = NULL
    THEN [is_new |-> TRUE,
          search_multiplexer |-> Some(Len(muxes) + 1),
          search_multiplexer_query |-> Some(query),
          muxes |-> Append(muxes, kolibri_task_multiplexer_new(Len(muxes) + 1)),
          cancellable |-> Append(cancellable, FALSE)]
  ELSE IF ~kolibri_gnome_search_provider_can_attach_search(query)
    THEN [is_new |-> TRUE,
          search_multiplexer |-> Some(Len(muxes) + 1),
          search_multiplexer_query |-> Some(query),
          muxes |-> Append([muxes EXCEPT ![Deref(search_multiplexer)] =
                                           g_object_unref(@)],
                           kolibri_task_multiplexer_new(Len(muxes) + 1)),
          cancellable |->
            Append(kolibri_task_multiplexer_cancel(
                     cancellable, muxes[Deref(search_multiplexer)]),
                   FALSE)]
  ELSE [is_new |-> TRUE,
        search_multiplexer |-> search_multiplexer,
        search_multiplexer_query |-> search_multiplexer_query,
        muxes |-> muxes,
        cancellable |-> cancellable]

\* kolibri_gnome_search_provider_get_search_multiplexer: the provider's
\* fields after the call, and whether it made a new multiplexer. Without a
\* multiplexer one is made; one that cannot be attached to is cancelled,
\* unreferenced and replaced; otherwise the current one is kept.
kolibri_gnome_search_provider_get_search_multiplexer(query) ==
  IF search_multiplexer = NULL
    THEN [is_new |-> TRUE,
          search_multiplexer |-> Some(Len(muxes) + 1),
          search_multiplexer_query |-> Some(query),
          muxes |-> Append(muxes, kolibri_task_multiplexer_new(Len(muxes) + 1)),
          cancellable |-> Append(cancellable, FALSE)]
  ELSE IF ~kolibri_gnome_search_provider_can_attach_search(query)
    THEN [is_new |-> TRUE,
          search_multiplexer |-> Some(Len(muxes) + 1),
          search_multiplexer_query |-> Some(query),
          muxes |-> Append([muxes EXCEPT ![Deref(search_multiplexer)] =
                                           g_object_unref(@)],
                           kolibri_task_multiplexer_new(Len(muxes) + 1)),
          cancellable |->
            Append(kolibri_task_multiplexer_cancel(
                     cancellable, muxes[Deref(search_multiplexer)]),
                   FALSE)]
  ELSE [is_new |-> FALSE,
        search_multiplexer |-> search_multiplexer,
        search_multiplexer_query |-> search_multiplexer_query,
        muxes |-> muxes,
        cancellable |-> cancellable]

\* A call of filter_item_ids that has not returned: its three arguments, and
\* no item ids in *out_item_ids yet.
FilterRun(all_item_ids, channel_id, exclude_channel_ids) ==
  [all_item_ids |-> all_item_ids, channel_id |-> channel_id,
   exclude_channel_ids |-> exclude_channel_ids, out_item_ids |-> NULL]

\* An item id that has not been parsed: neither parse_item_id nor
\* parse_node_path has returned.
ParseRun(item_id) == [item_id |-> item_id, item |-> NULL, path |-> NULL]

Init ==
  /\ search_multiplexer = NULL
  /\ search_multiplexer_query = NULL
  /\ muxes = <<>>
  /\ cancellable = <<>>
  /\ calls = <<>>
  /\ upstream = <<>>
  /\ idle = <<>>
  /\ idle_new = <<>>
  /\ created_now = {}
  /\ reply_log = <<>>
  /\ assert_failed = FALSE
  /\ filter_run = FilterRun(<<>>, NULL, NULL)
  /\ parse_run = ParseRun(NULL)
  /\ routed = <<>>
  /\ activation = NoActivation
  /\ metas = <<>>
  /\ inactivity_timeout = "restarted"
  /\ bus_run = BusRun(NULL, NULL, NULL, {})

\* create_search_task for a new invocation on object_path with the given
\* terms: a next task for it is added to the multiplexer of its query, and
\* the upstream call is issued when that multiplexer is new.
create_search_task(object_path, terms) ==
  /\ ~assert_failed
  /\ Len(calls) < MaxCalls
  /\ LET query == g_strjoinv(terms)
         c == Len(calls) + 1
         got == kolibri_gnome_search_provider_get_search_multiplexer(query)
         m == Deref(got.search_multiplexer)
     IN  /\ search_multiplexer' = got.search_multiplexer
         /\ search_multiplexer_query' = got.search_multiplexer_query
         /\ cancellable' = got.cancellable
         /\ muxes' = [got.muxes EXCEPT
                        ![m] = kolibri_task_multiplexer_add_next(@, c)]
         /\ calls' = Append(calls,
                            [object_path |-> object_path,
                             query |-> query, mux |-> m,
                             task |-> add_next_task(got.muxes[m]),
                             replies |-> <<>>])
         /\ upstream' =
              IF got.is_new
                THEN Append(upstream,
                            [query |-> query, mux |-> m,
                             cancellable |->
                               kolibri_task_multiplexer_get_cancellable(got.muxes[m]),
                             by |-> c, state |-> "inflight", outcome |-> NULL])
                ELSE upstream
         /\ created_now' =
              created_now \cup {NextTask(c)}
                \cup (IF got.is_new THEN {MainTask(m)} ELSE {})
         /\ UNCHANGED <<idle, idle_new, reply_log, assert_failed,
                        filter_run, parse_run, routed, activation, metas,
                        bus_run>>

\* handle_get_initial_result_set
HandleGetInitialResultSet(object_path, terms) ==
  /\ create_search_task(object_path, terms)
  /\ inactivity_timeout' = g_signal_emit_method_called(inactivity_timeout)

\* handle_get_subsearch_result_set: the previous results are not used.
HandleGetSubsearchResultSet(object_path, terms) ==
  /\ create_search_task(object_path, terms)
  /\ UNCHANGED inactivity_timeout

\* get_channel_ids_for_invocation_tasks: the channel id of every invocation
\* in the list that has one, in list order.
RECURSIVE get_channel_ids_for_invocation_tasks(_, _)
get_channel_ids_for_invocation_tasks(invocation_tasks, cs) ==
  IF invocation_tasks = <<>> THEN <<>>
  ELSE LET channel_id ==
             get_channel_id_for_invocation(cs[Head(invocation_tasks)].object_path)
       IN  (IF channel_id # NULL THEN <<Deref(channel_id)>> ELSE <<>>)
             \o get_channel_ids_for_invocation_tasks(Tail(invocation_tasks), cs)

\* Mutant: the channel id of the invocation is not looked up, so every
\* invocation is filtered like one on the base path.
process_search_invocation_task_result_unscoped(slot_mux, object_path, task, canc, cs) ==
  LET result == g_task_propagate_pointer(task, canc)
      exclude_channel_ids ==
        Some(get_channel_ids_for_invocation_tasks(slot_mux.next_tasks, cs))
  IN  IF ~result.ok THEN Err(result.error)
      ELSE Ok(filter_item_ids(result.value, NULL, exclude_channel_ids))

\* process_search_invocation_task_result: the task's error, or the item ids
\* filtered for the invocation's channel. A call on the base path excludes
\* the channels of the next tasks of slot_mux, the multiplexer the provider
\* holds when the callback runs.
process_search_invocation_task_result(slot_mux, object_path, task, canc, cs) ==
  LET result == g_task_propagate_pointer(task, canc)
      channel_id == get_channel_id_for_invocation(object_path)
      exclude_channel_ids ==
        IF channel_id = NULL
          THEN Some(get_channel_ids_for_invocation_tasks(slot_mux.next_tasks, cs))
          ELSE NULL
  IN  IF ~result.ok THEN Err(result.error)
      ELSE Ok(filter_item_ids(result.value, channel_id, exclude_channel_ids))

\* Mutant: the callback does not return after answering with the error, and
\* goes on to complete the invocation with the (unset) filtered item ids.
invocation_async_ready_cb_falls_through(call, slot_mux, canc, cs) ==
  [call EXCEPT
     !.task.completed = TRUE,
     !.replies =
       IF g_task_propagate_pointer(call.task, canc).ok
         THEN Append(@, process_search_invocation_task_result(
                          slot_mux, call.object_path, call.task, canc, cs))
         ELSE Append(Append(@, process_search_invocation_task_result(
                                 slot_mux, call.object_path, call.task, canc, cs)),
                     Ok(<<>>))]

\* search_multiplexer_to_get_item_ids_invocation_async_ready_cb and
\* search_multiplexer_to_get_subsearch_result_set_invocation_async_ready_cb:
\* the invocation after its next task called back, answered with the error
\* or with the filtered item ids. The two callbacks differ only in the name
\* of the method they complete, so an invocation does not record which of
\* the two it is.
invocation_async_ready_cb(call, slot_mux, canc, cs) ==
  [call EXCEPT
     !.task.completed = TRUE,
     !.replies = Append(@, process_search_invocation_task_result(
                             slot_mux, call.object_path, call.task, canc, cs))]

\* Mutant: the variant path returns an error like the error path.
return_to_next_as_error(call, result) ==
  [call EXCEPT !.task.ever_returned = TRUE,
               !.task.result = Some(Err("UpstreamError"))]

\* The next task of a multiplexer after
\* kolibri_task_multiplexer_return_error_to_next or
\* kolibri_task_multiplexer_return_variant_to_next returned result to it
\* (an error is copied, a variant shared).
return_to_next(call, result) ==
  [call EXCEPT !.task.ever_returned = TRUE, !.task.result = Some(result)]

\* kolibri_task_multiplexer_main_task_async_ready_cb on multiplexer m, whose
\* main task has returned in mx: every next task is returned the main task's
\* outcome, in list order, its callback running at once or queued; then the
\* list is emptied and the main task dropped, and with it the main task's
\* reference on the multiplexer.
main_task_async_ready_cb(m, mx) ==
  LET mux == mx[m]
      result == g_task_propagate_pointer(Deref(mux.main_task), cancellable)
      listed(c) == \E n \in 1..Len(mux.next_tasks) : mux.next_tasks[n] = c
      returned == [c \in DOMAIN calls |->
                     IF listed(c) THEN return_to_next(calls[c], result)
                                  ELSE calls[c]]
      now(c) == g_task_returns_now(NextTask(c), returned[c].task,
                                   cancellable, created_now)
      later(c) == ~now(c)
      queued == SelectSeq(mux.next_tasks, later)
      slot_mux == mx[Deref(search_multiplexer)]
  IN  /\ calls' = [c \in DOMAIN calls |->
                     IF listed(c) /\ now(c)
                       THEN invocation_async_ready_cb(returned[c], slot_mux,
                                                      cancellable, returned)
                       ELSE returned[c]]
      /\ reply_log' = reply_log \o SelectSeq(mux.next_tasks, now)
      /\ idle_new' = idle_new \o [n \in 1..Len(queued) |-> NextTask(queued[n])]
      /\ muxes' = [mx EXCEPT
                     ![m] = g_object_unref(
                              [mux EXCEPT
                                 !.next_tasks = g_list_store_remove_all(@),
                                 !.main_task = NULL])]

\* kolibri_task_multiplexer_push_error / kolibri_task_multiplexer_push_variant:
\* the multiplexer with its main task returned outcome.
kolibri_task_multiplexer_push(mux, outcome) ==
  [mux EXCEPT !.main_task = Some([Deref(@) EXCEPT !.ever_returned = TRUE,
                                                  !.result = Some(outcome)]),
              !.pushes = @ + 1]

\* What an upstream call bound to cancellable c may finish with: the
\* cancelled error once c is cancelled, else whatever the catalog answers.
g_dbus_proxy_call_finish(canc, c) ==
  IF g_cancellable_is_cancelled(canc, c)
    THEN {Err("Cancelled")}
    ELSE UpstreamOutcomes

\* multiplex_dbus_proxy_call_async_ready_cb: upstream call u finishes with
\* outcome, which is pushed to the multiplexer the call was made for (the
\* push asserts that the main task is still there). The main task calls back
\* at once, or from an idle source when cancelled. The reply is dispatched
\* in a later main loop iteration than the one that issued the call.
multiplex_dbus_proxy_call_async_ready_cb(u, outcome) ==
  /\ ~assert_failed
  /\ u \in DOMAIN upstream
  /\ upstream[u].state = "inflight"
  /\ MainTask(upstream[u].mux) \notin created_now
  /\ LET m == upstream[u].mux
         mx == [muxes EXCEPT ![m] = kolibri_task_multiplexer_push(@, outcome)]
     IN  IF muxes[m].main_task = NULL
           THEN /\ assert_failed' = TRUE
                /\ UNCHANGED <<search_multiplexer, search_multiplexer_query,
                               muxes, cancellable, calls, upstream, idle,
                               idle_new, created_now, reply_log>>
           ELSE /\ upstream' = [upstream EXCEPT ![u].state = "done",
                                                ![u].outcome = Some(outcome)]
                /\ IF g_task_returns_now(MainTask(m), Deref(mx[m].main_task),
                                         cancellable, created_now)
                     THEN main_task_async_ready_cb(m, mx)
                     ELSE /\ muxes' = mx
                          /\ idle_new' = Append(idle_new, MainTask(m))
                          /\ UNCHANGED <<calls, reply_log>>
                /\ UNCHANGED <<search_multiplexer, search_multiplexer_query,
                               cancellable, idle, created_now, assert_failed>>
  /\ UNCHANGED <<filter_run, parse_run, routed, activation, metas,
                 inactivity_timeout, bus_run>>

\* Upstream call u finishes with one of the outcomes of the catalog.
UpstreamReply(u, outcome) ==
  /\ u \in DOMAIN upstream
  /\ outcome \in g_dbus_proxy_call_finish(cancellable, upstream[u].cancellable)
  /\ multiplex_dbus_proxy_call_async_ready_cb(u, outcome)

\* The idle source of a main task that could not call back at once.
IdleMainTask ==
  /\ ~assert_failed
  /\ idle # <<>>
  /\ Head(idle).kind = "main"
  /\ main_task_async_ready_cb(Head(idle).id, muxes)
  /\ idle' = Tail(idle)
  /\ UNCHANGED <<search_multiplexer, search_multiplexer_query, cancellable,
                 upstream, created_now, assert_failed, filter_run, parse_run, routed, activation, metas,
                 inactivity_timeout, bus_run>>

\* The idle source of a next task that could not call back at once.
IdleNextTask ==
  /\ ~assert_failed
  /\ idle # <<>>
  /\ Head(idle).kind = "next"
  /\ LET c == Head(idle).id
     IN  /\ calls' = [calls EXCEPT
                        ![c] = invocation_async_ready_cb(
                                 @, muxes[Deref(search_multiplexer)],
                                 cancellable, calls)]
         /\ reply_log' = Append(reply_log, c)
  /\ idle' = Tail(idle)
  /\ UNCHANGED <<search_multiplexer, search_multiplexer_query, muxes,
                 cancellable, upstream, idle_new, created_now, assert_failed,
                 filter_run, parse_run, routed, activation, metas,
                 inactivity_timeout, bus_run>>

\* The main loop starts its next iteration once every ready source has been
\* dispatched: completions queued meanwhile become ready.
Iterate ==
  /\ ~assert_failed
  /\ idle = <<>>
  /\ idle_new # <<>> \/ created_now # {}
  /\ idle' = idle_new
  /\ idle_new' = <<>>
  /\ created_now' = {}
  /\ UNCHANGED <<search_multiplexer, search_multiplexer_query, muxes,
                 cancellable, calls, upstream, reply_log, assert_failed,
                 filter_run, parse_run, routed, activation, metas,
                 inactivity_timeout, bus_run>>

Next ==
  \/ \E object_path \in ObjectPaths, terms \in TermLists :
       HandleGetInitialResultSet(object_path, terms)
  \/ \E object_path \in ObjectPaths, terms \in TermLists :
       HandleGetSubsearchResultSet(object_path, terms)
  \/ \E u \in 1..MaxCalls, outcome \in UpstreamOutcomes \cup {Err("Cancelled")} :
       UpstreamReply(u, outcome)
  \/ IdleMainTask
  \/ IdleNextTask
  \/ Iterate

Spec == Init /\ [][Next]_vars

\* The main loop keeps dispatching ready sources and iterating, and the
\* catalog service answers every call it was sent, a cancelled one included.
Fairness ==
  /\ WF_vars(IdleMainTask)
  /\ WF_vars(IdleNextTask)
  /\ WF_vars(Iterate)
  /\ \A u \in 1..MaxCalls :
       WF_vars(\E outcome \in UpstreamOutcomes \cup {Err("Cancelled")} :
                 UpstreamReply(u, outcome))

SpecLive == Spec /\ Fairness

----------------------------------------------------------------------------
\* The filter and the parsers on their own

\* The provider as kolibri_gnome_search_provider_init leaves it, with no call.
ProviderAtRest ==
  /\ search_multiplexer = NULL
  /\ search_multiplexer_query = NULL
  /\ muxes = <<>>
  /\ cancellable = <<>>
  /\ calls = <<>>
  /\ upstream = <<>>
  /\ idle = <<>>
  /\ idle_new = <<>>
  /\ created_now = {}
  /\ reply_log = <<>>
  /\ assert_failed = FALSE

\* filter_item_ids is about to be called with any list of item ids, channel
\* id and list of excluded channel ids.
InitFilter ==
  /\ ProviderAtRest
  /\ parse_run = ParseRun(NULL)
  /\ routed = <<>>
  /\ activation = NoActivation
  /\ metas = <<>>
  /\ inactivity_timeout = "restarted"
  /\ bus_run = BusRun(NULL, NULL, NULL, {})
  /\ filter_run \in {FilterRun(all_item_ids, channel_id, exclude_channel_ids) :
                       all_item_ids \in ItemIdLists, channel_id \in ChannelIds,
                       exclude_channel_ids \in ExcludeLists}

\* filter_item_ids returns: *out_item_ids holds the kept item ids.
FilterItemIds ==
  /\ filter_run.out_item_ids = NULL
  /\ filter_run' =
       [filter_run EXCEPT
          !.out_item_ids = Some(filter_item_ids(filter_run.all_item_ids,
                                                filter_run.channel_id,
                                                filter_run.exclude_channel_ids))]
  /\ UNCHANGED <<provider_vars, parse_run, routed, activation, metas,
                 inactivity_timeout, bus_run>>

NextFilter == FilterItemIds

SpecFilter == InitFilter /\ [][NextFilter]_vars

\* parse_item_id is about to be called with NULL or any string.
InitParse ==
  /\ ProviderAtRest
  /\ filter_run = FilterRun(<<>>, NULL, NULL)
  /\ routed = <<>>
  /\ activation = NoActivation
  /\ metas = <<>>
  /\ inactivity_timeout = "restarted"
  /\ bus_run = BusRun(NULL, NULL, NULL, {})
  /\ parse_run \in {ParseRun(item_id) : item_id \in ItemIdStrings}

\* parse_item_id returns.
ParseItemId ==
  /\ parse_run.item = NULL
  /\ parse_run' = [parse_run EXCEPT !.item = Some(parse_item_id(parse_run.item_id))]
  /\ UNCHANGED <<provider_vars, filter_run, routed, activation, metas,
                 inactivity_timeout, bus_run>>

\* parse_node_path returns: it is called, as filter_item_id_for_channel does,
\* with the node path of an item id (a string) that parse_item_id accepted.
ParseNodePath ==
  /\ parse_run.item_id # NULL
  /\ parse_run.item # NULL
  /\ Deref(parse_run.item).ok
  /\ parse_run.path = NULL
  /\ parse_run' =
       [parse_run EXCEPT
          !.path = Some(parse_node_path(Deref(parse_run.item).node_path))]
  /\ UNCHANGED <<provider_vars, filter_run, routed, activation, metas,
                 inactivity_timeout, bus_run>>

NextParse == ParseItemId \/ ParseNodePath

SpecParse == InitParse /\ [][NextParse]_vars

----------------------------------------------------------------------------
\* The routing of calls on its own

\* The connection routes a method call on an object path.
DispatchMethodCall(object_path, interface_name) ==
  /\ Len(routed) < MaxRoutes
  /\ routed' = Append(routed, MethodCall(object_path, interface_name))
  /\ UNCHANGED <<provider_vars, filter_run, parse_run, activation, metas,
                 inactivity_timeout, bus_run>>

\* The connection answers the introspection of an object path.
Introspect(object_path) ==
  /\ Len(routed) < MaxRoutes
  /\ routed' = Append(routed, Introspection(object_path))
  /\ UNCHANGED <<provider_vars, filter_run, parse_run, activation, metas,
                 inactivity_timeout, bus_run>>

NextRouter ==
  \/ \E object_path \in RoutePaths, interface_name \in InterfaceNames :
       DispatchMethodCall(object_path, interface_name)
  \/ \E object_path \in RoutePaths : Introspect(object_path)

SpecRouter == Init /\ [][NextRouter]_vars

----------------------------------------------------------------------------
\* The calls that launch Kolibri, next to the search calls

\* handle_launch_search
HandleLaunchSearch(object_path, terms, launch) ==
  /\ ~assert_failed
  /\ activation.number < MaxActivations
  /\ activation' = Activation(activation.number + 1, "LaunchSearch",
                              object_path, NULL, terms, launch)
  /\ inactivity_timeout' = g_signal_emit_method_called(inactivity_timeout)
  /\ UNCHANGED <<provider_vars, filter_run, parse_run, routed, metas, bus_run>>

\* Mutant: the query of the call is recorded as the query being searched.
HandleActivateResult_recording_query(object_path, result, terms, launch) ==
  /\ ~assert_failed
  /\ activation.number < MaxActivations
  /\ activation' = Activation(activation.number + 1, "ActivateResult",
                              object_path, Some(result), terms, launch)
  /\ search_multiplexer_query' = Some(g_strjoinv(terms))
  /\ UNCHANGED <<search_multiplexer, muxes, cancellable, calls, upstream, idle,
                 idle_new, created_now, reply_log, assert_failed, filter_run,
                 parse_run, routed, metas, bus_run>>
  /\ inactivity_timeout' = g_signal_emit_method_called(inactivity_timeout)

\* handle_activate_result
HandleActivateResult(object_path, result, terms, launch) ==
  /\ ~assert_failed
  /\ activation.number < MaxActivations
  /\ activation' = Activation(activation.number + 1, "ActivateResult",
                              object_path, Some(result), terms, launch)
  /\ inactivity_timeout' = g_signal_emit_method_called(inactivity_timeout)
  /\ UNCHANGED <<provider_vars, filter_run, parse_run, routed, metas, bus_run>>

NextActivate ==
  \/ \E object_path \in ObjectPaths, terms \in TermLists :
       /\ Len(calls) < MaxActivateCalls
       /\ HandleGetInitialResultSet(object_path, terms)
  \/ \E object_path \in ObjectPaths, terms \in TermLists :
       /\ Len(calls) < MaxActivateCalls
       /\ HandleGetSubsearchResultSet(object_path, terms)
  \/ \E u \in 1..MaxActivateCalls,
        outcome \in UpstreamOutcomes \cup {Err("Cancelled")} :
       UpstreamReply(u, outcome)
  \/ IdleMainTask
  \/ IdleNextTask
  \/ Iterate
  \/ \E object_path \in ObjectPaths, terms \in ActivateTermLists,
        launch \in LaunchOutcomes :
       HandleLaunchSearch(object_path, terms, launch)
  \/ \E object_path \in ObjectPaths, result \in ActivateItemIds,
        terms \in ActivateTermLists, launch \in LaunchOutcomes :
       HandleActivateResult(object_path, result, terms, launch)

SpecActivate == Init /\ [][NextActivate]_vars

----------------------------------------------------------------------------
\* Searches with and without terms, on a catalog that holds item ids that
\* do not decode

\* The terms of a search call: none, or one word.
CatalogTermLists == {<<>>, <<WordX>>}

\* What the catalog holds for a query that is not empty: a node of channel
\* a, an id with no "?", an id with no "/" in its node path, a node of
\* channel b.
CatalogPayload == <<ItemNodeA, ItemNoContext, ItemNoKind, ItemNodeB>>

\* What the catalog service answers to GetItemIdsForSearch(query): nothing
\* for the empty query.
CatalogOutcomes(query) ==
  {Err("UpstreamError")}
    \cup (IF query = <<>> THEN {Ok(<<>>)} ELSE {Ok(CatalogPayload)})

\* What the call for query, bound to cancellable c, may finish with.
catalog_call_finish(canc, c, query) ==
  IF g_cancellable_is_cancelled(canc, c)
    THEN {Err("Cancelled")}
    ELSE CatalogOutcomes(query)

\* Upstream call u finishes with what the catalog answers to its query.
CatalogReply(u, outcome) ==
  /\ u \in DOMAIN upstream
  /\ outcome \in catalog_call_finish(cancellable, upstream[u].cancellable,
                                     upstream[u].query)
  /\ multiplex_dbus_proxy_call_async_ready_cb(u, outcome)

NextCatalog ==
  \/ \E object_path \in ObjectPaths, terms \in CatalogTermLists :
       HandleGetInitialResultSet(object_path, terms)
  \/ \E object_path \in ObjectPaths, terms \in CatalogTermLists :
       HandleGetSubsearchResultSet(object_path, terms)
  \/ \E u \in 1..MaxCalls,
        outcome \in {Err("UpstreamError"), Err("Cancelled"), Ok(<<>>),
                     Ok(CatalogPayload)} :
       CatalogReply(u, outcome)
  \/ IdleMainTask
  \/ IdleNextTask
  \/ Iterate

SpecCatalog == Init /\ [][NextCatalog]_vars

----------------------------------------------------------------------------
\* GetResultMetas, and the five methods together while time passes

\* The metadata the daemon holds for a list of item ids: one entry for each.
Metadata(results) == [n \in 1..Len(results) |-> [id |-> results[n]]]

\* kolibri_daemon_main_call_get_metadata_for_item_ids_finish: the outcomes of
\* the call made with the nullable cancellable c.
kolibri_daemon_main_call_get_metadata_for_item_ids_finish(canc, c, results) ==
  IF g_cancellable_is_cancelled(canc, c)
    THEN {Err("Cancelled")}
    ELSE {Err("UpstreamError"), Ok(Metadata(results))}

\* The lists of results GetResultMetas is called with.
ResultLists == {<<ItemNodeA>>, <<ItemNodeA, ItemNodeB>>}

\* A GetResultMetas invocation and the upstream call made for it.
MetasCall(results, c) ==
  [results |-> results, cancellable |-> c, state |-> "inflight",
   outcome |-> NULL, replies |-> <<>>]

\* Mutant: the upstream call is given the cancellable of the multiplexer in
\* the slot.
HandleGetResultMetas_with_search_cancellable(results) ==
  /\ ~assert_failed
  /\ Len(metas) < MaxMetasCalls
  /\ metas' =
       Append(metas,
              MetasCall(results,
                        IF search_multiplexer = NULL THEN NULL
                        ELSE kolibri_task_multiplexer_get_cancellable(
                               muxes[Deref(search_multiplexer)])))
  /\ inactivity_timeout' = g_signal_emit_method_called(inactivity_timeout)
  /\ UNCHANGED <<provider_vars, filter_run, parse_run, routed, activation,
                 bus_run>>

\* handle_get_result_metas: the upstream call is made with no cancellable.
HandleGetResultMetas(results) ==
  /\ ~assert_failed
  /\ Len(metas) < MaxMetasCalls
  /\ metas' = Append(metas, MetasCall(results, NULL))
  /\ inactivity_timeout' = g_signal_emit_method_called(inactivity_timeout)
  /\ UNCHANGED <<provider_vars, filter_run, parse_run, routed, activation,
                 bus_run>>

\* kolibri_daemon_get_metadata_for_item_ids_async_ready_cb: the invocation is
\* returned the error, or the metadata in a tuple of one.
get_metadata_for_item_ids_async_ready_cb(outcome) ==
  IF ~outcome.ok THEN outcome ELSE Ok(<<outcome.value>>)

\* The upstream call of GetResultMetas invocation k completes.
GetMetadataReply(k, outcome) ==
  /\ ~assert_failed
  /\ k \in DOMAIN metas
  /\ metas[k].state = "inflight"
  /\ outcome \in kolibri_daemon_main_call_get_metadata_for_item_ids_finish(
                    cancellable, metas[k].cancellable, metas[k].results)
  /\ metas' =
       [metas EXCEPT
          ![k].state = "done",
          ![k].outcome = Some(outcome),
          ![k].replies =
            Append(@, get_metadata_for_item_ids_async_ready_cb(outcome))]
  /\ UNCHANGED <<provider_vars, filter_run, parse_run, routed, activation,
                 inactivity_timeout, bus_run>>

\* Time passes with no method called: the inactivity timeout is no longer
\* the one just restarted.
InactivityTimeoutRuns ==
  /\ ~assert_failed
  /\ inactivity_timeout = "restarted"
  /\ inactivity_timeout' = "elapsing"
  /\ UNCHANGED <<provider_vars, filter_run, parse_run, routed, activation,
                 metas, bus_run>>

\* The results and outcomes of the calls that launch Kolibri here.
AllItemIds == {ItemNodeA, ItemNoContext}
AllLaunchOutcomes == {"launched", "LaunchError"}

NextAll ==
  \/ \E object_path \in ObjectPaths, terms \in TermLists :
       /\ Len(calls) < MaxActivateCalls
       /\ HandleGetInitialResultSet(object_path, terms)
  \/ \E object_path \in ObjectPaths, terms \in TermLists :
       /\ Len(calls) < MaxActivateCalls
       /\ HandleGetSubsearchResultSet(object_path, terms)
  \/ \E u \in 1..MaxActivateCalls,
        outcome \in UpstreamOutcomes \cup {Err("Cancelled")} :
       UpstreamReply(u, outcome)
  \/ IdleMainTask
  \/ IdleNextTask
  \/ Iterate
  \/ \E object_path \in ObjectPaths, launch \in AllLaunchOutcomes :
       HandleLaunchSearch(object_path, <<WordX>>, launch)
  \/ \E object_path \in ObjectPaths, result \in AllItemIds,
        launch \in AllLaunchOutcomes :
       HandleActivateResult(object_path, result, <<WordX>>, launch)
  \/ \E results \in ResultLists : HandleGetResultMetas(results)
  \/ \E k \in 1..MaxMetasCalls,
        outcome \in {Err("UpstreamError"), Err("Cancelled")}
                      \cup {Ok(Metadata(results)) : results \in ResultLists} :
       GetMetadataReply(k, outcome)
  \/ InactivityTimeoutRuns

SpecAll == Init /\ [][NextAll]_vars

----------------------------------------------------------------------------
\* Bus selection: a process with any environment and any files computes the
\* bus type once.

InitBus ==
  /\ ProviderAtRest
  /\ filter_run = FilterRun(<<>>, NULL, NULL)
  /\ parse_run = ParseRun(NULL)
  /\ routed = <<>>
  /\ activation = NoActivation
  /\ metas = <<>>
  /\ inactivity_timeout = "restarted"
  /\ \E use \in FlagValues, force \in FlagValues,
        home \in KolibriHomeValues, files \in SUBSET DataFiles :
       bus_run = BusRun(use, force, home, files)

GetDefaultBusType ==
  /\ bus_run.bus_type = NULL
  /\ bus_run' =
       [bus_run EXCEPT
          !.bus_type =
            Some(kolibri_daemon_get_default_bus_type(bus_run.env,
                                                     bus_run.files))]
  /\ UNCHANGED <<provider_vars, filter_run, parse_run, routed, activation,
                 metas, inactivity_timeout>>

NextBus == GetDefaultBusType

SpecBus == InitBus /\ [][NextBus]_vars

----------------------------------------------------------------------------
\* Vocabulary of the properties

Range(seq) == {seq[n] : n \in 1..Len(seq)}

\* The invocations attached to multiplexer m, and the upstream calls made for it.
Attached(m) == {c \in DOMAIN calls : calls[c].mux = m}
UpstreamFor(m) == {u \in DOMAIN upstream : upstream[u].mux = m}

\* The multiplexer in the provider's slot.
SlotMux == muxes[Deref(search_multiplexer)]

\* A search call arrives in this step; it is the last of calls'.
Arrives == Len(calls') = Len(calls) + 1
Arrived == calls'[Len(calls')]

\* The provider still holds its reference on multiplexer m: every reference
\* but the one of a main task that is still there.
Held(m) ==
  muxes[m].ref_count - (IF muxes[m].main_task # NULL THEN 1 ELSE 0) >= 1

\* The completion of invocation c's next task is queued in an idle source.
Queued(c) == NextTask(c) \in Range(idle) \cup Range(idle_new)

\* Multiplexer m was discarded by a query change while pending: that is the
\* only place its cancellable is cancelled.
Discarded(m) == cancellable[m]

\* The number of occurrences of the character d in the string str, and the
\* parts of str before and after the first d.
Count(str, d) == Cardinality({n \in 1..Len(str) : str[n] = d})
Before(str, d) == SubSeq(str, 1, FirstIndex(str, d) - 1)
After(str, d) == SubSeq(str, FirstIndex(str, d) + 1, Len(str))

\* An item id reads node_kind/node_id?origin_channel.
NodePathOf(item_id) == Before(item_id, "?")
OriginChannel(item_id) == After(item_id, "?")
NodeKindOf(item_id) == Before(NodePathOf(item_id), "/")
NodeIdOf(item_id) == After(NodePathOf(item_id), "/")

\* The item id decodes: it has a "?" and a "/" before its first "?".
Decodes(item_id) ==
  Count(item_id, "?") >= 1 /\ Count(NodePathOf(item_id), "/") >= 1

\* The item ids of list that satisfy Keep, in the order of list.
Kept(list, Keep(_)) == SelectSeq(list, Keep)

\* The channel scope of invocation c, and the payload pushed to its
\* multiplexer.
Scope(c) == get_channel_id_for_invocation(calls[c].object_path)
Payload(c) == Deref(calls[c].task.result).value

\* Invocation c was answered with a result set.
AnsweredOk(c) == calls[c].replies # <<>> /\ calls[c].replies[1].ok

----------------------------------------------------------------------------
\* C1: a search call that arrives with the query of the provider's pending
\* multiplexer is attached to that multiplexer and issues no upstream call:
\* the multiplexer keeps the single upstream call issued by the call that
\* created it, for that query.
C1_OneUpstreamCallPerPendingQuery ==
  [][(/\ Arrives
      /\ search_multiplexer # NULL
      /\ ~kolibri_task_multiplexer_get_completed(SlotMux)
      /\ search_multiplexer_query = Some(Arrived.query))
     => (/\ upstream' = upstream
         /\ Arrived.mux = Deref(search_multiplexer)
         /\ \E u \in DOMAIN upstream :
              /\ UpstreamFor(Deref(search_multiplexer)) = {u}
              /\ upstream[u].query = Arrived.query
              /\ upstream[u].by = SlotMux.next_tasks[1])]_vars

\* Three calls on three object paths share one multiplexer and one upstream call.
C1_Witness ==
  /\ Len(calls) = 3
  /\ Len(upstream) = 1
  /\ \A c \in DOMAIN calls : calls[c].mux = 1
  /\ Cardinality({calls[c].object_path : c \in DOMAIN calls}) = 3

\* C2: every invocation attached to a multiplexer is returned the outcome
\* that was pushed to it: the same payload, or an equal error; its reply is
\* a result set exactly when a payload was pushed, and carries the pushed
\* error otherwise. So no two invocations of one multiplexer differ in kind.
C2_SameOutcomeToEverySubscriber ==
  \A c \in DOMAIN calls :
    calls[c].task.result # NULL =>
      \E u \in UpstreamFor(calls[c].mux) :
        /\ upstream[u].outcome = calls[c].task.result
        /\ \A d \in Attached(calls[c].mux) :
             calls[d].task.result = calls[c].task.result
        /\ \A n \in 1..Len(calls[c].replies) :
             /\ calls[c].replies[n].ok = Deref(upstream[u].outcome).ok
             /\ calls[c].replies[n].error = Deref(upstream[u].outcome).error

\* Two invocations of one multiplexer answered after a payload, and two of
\* one multiplexer answered after an upstream error.
C2_Witness ==
  \E c, d \in DOMAIN calls :
    /\ c < d
    /\ calls[c].mux = calls[d].mux
    /\ calls[c].replies # <<>> /\ calls[d].replies # <<>>
    /\ calls[c].replies[1].ok /\ calls[d].replies[1].ok
    /\ \E e \in DOMAIN calls :
         /\ calls[e].mux # calls[c].mux
         /\ calls[e].replies # <<>>
         /\ calls[e].replies[1].error = "UpstreamError"

\* C3: a search call that arrives with another query than the one of the
\* provider's pending multiplexer cancels that multiplexer's cancellable and
\* replaces it in the slot by a new multiplexer recorded under the new
\* query; exactly one upstream call is issued, for the new query and the new
\* multiplexer, and the call is attached to the new multiplexer only.
C3_QueryChangeReplacesMultiplexer ==
  [][(/\ Arrives
      /\ search_multiplexer # NULL
      /\ ~kolibri_task_multiplexer_get_completed(SlotMux)
      /\ search_multiplexer_query # Some(Arrived.query))
     => (/\ cancellable'[Deref(search_multiplexer)]
         /\ search_multiplexer' = Some(Len(muxes) + 1)
         /\ Len(muxes') = Len(muxes) + 1
         /\ search_multiplexer_query' = Some(Arrived.query)
         /\ Len(upstream') = Len(upstream) + 1
         /\ SubSeq(upstream', 1, Len(upstream)) = upstream
         /\ upstream'[Len(upstream')].query = Arrived.query
         /\ upstream'[Len(upstream')].mux = Len(muxes) + 1
         /\ upstream'[Len(upstream')].state = "inflight"
         /\ Arrived.mux = Len(muxes) + 1
         /\ muxes'[Len(muxes) + 1].next_tasks = <<Len(calls')>>
         /\ muxes'[Deref(search_multiplexer)].next_tasks = SlotMux.next_tasks)]_vars

\* The first multiplexer is cancelled with its upstream call in flight, and
\* the second one is in the slot.
C3_Witness ==
  /\ Len(muxes) = 2
  /\ cancellable[1]
  /\ upstream[1].state = "inflight"
  /\ search_multiplexer = Some(2)
  /\ calls[Len(calls)].mux = 2

\* C4: every invocation attached to a multiplexer that was discarded while
\* pending is eventually answered, once, with an error.
C4_DiscardedCallersGetAnError ==
  \A c \in 1..MaxCalls :
    (c \in DOMAIN calls /\ Discarded(calls[c].mux))
      ~> (/\ c \in DOMAIN calls
          /\ Len(calls[c].replies) = 1
          /\ ~calls[c].replies[1].ok)

\* Two invocations of a discarded multiplexer have been answered with the
\* cancelled error.
C4_Witness ==
  \E c, d \in DOMAIN calls :
    /\ c # d
    /\ calls[c].mux = calls[d].mux
    /\ Discarded(calls[c].mux)
    /\ calls[c].replies = <<Err("Cancelled")>>
    /\ calls[d].replies = <<Err("Cancelled")>>

\* C5, as claimed: when the upstream call of a discarded multiplexer has
\* completed, the multiplexer's list of next tasks is empty and nothing was
\* returned to any invocation attached to it.
C5_DiscardedFindsNoSubscribers ==
  \A u \in DOMAIN upstream :
    (Discarded(upstream[u].mux) /\ upstream[u].state = "done")
      => /\ muxes[upstream[u].mux].next_tasks = <<>>
         /\ \A c \in Attached(upstream[u].mux) : calls[c].task.result = NULL

\* C5, amended: a discarded multiplexer gets no further invocation, and keeps
\* the ones attached before the discard in its list until its upstream call
\* has completed and its main task called back; each of them is then
\* returned an error, never a payload, and the list is emptied.
C5_DiscardedKeepsSubscribersUntilError ==
  \A m \in DOMAIN muxes :
    Discarded(m) =>
      /\ Attached(m) # {}
      /\ \A c \in Attached(m) : c < upstream[m + 1].by
      /\ muxes[m].main_task # NULL =>
           /\ Range(muxes[m].next_tasks) = Attached(m)
           /\ \A c \in Attached(m) : calls[c].task.result = NULL
      /\ muxes[m].main_task = NULL =>
           /\ muxes[m].next_tasks = <<>>
           /\ upstream[m].state = "done"
           /\ \A c \in Attached(m) :
                /\ calls[c].task.result # NULL
                /\ ~Deref(calls[c].task.result).ok
      /\ \A c \in Attached(m) :
           \A n \in 1..Len(calls[c].replies) : ~calls[c].replies[n].ok

\* The upstream call of a discarded multiplexer has completed while two
\* invocations are still in its list.
C5_Witness ==
  \E m \in DOMAIN muxes :
    /\ Discarded(m)
    /\ upstream[m].state = "done"
    /\ Len(muxes[m].next_tasks) = 2

\* C6: an invocation is appended to a multiplexer's list of next tasks only
\* while the multiplexer is pending, before and after the step that appends
\* it, with nothing returned to it yet; and every invocation attached to a
\* completed multiplexer has been returned that multiplexer's outcome.
C6_AttachOnlyWhilePending ==
  /\ [](\A c \in DOMAIN calls :
          kolibri_task_multiplexer_get_completed(muxes[calls[c].mux])
            => calls[c].task.ever_returned)
  /\ [][\A m \in DOMAIN muxes' :
          Len(muxes'[m].next_tasks)
              > (IF m \in DOMAIN muxes THEN Len(muxes[m].next_tasks) ELSE 0)
            => /\ ~kolibri_task_multiplexer_get_completed(muxes'[m])
               /\ m \in DOMAIN muxes
                    => ~kolibri_task_multiplexer_get_completed(muxes[m])
               /\ Arrives
               /\ Arrived.mux = m
               /\ ~Arrived.task.ever_returned]_vars

\* An invocation that joined a pending multiplexer made by an earlier call
\* has been answered with that multiplexer's payload.
C6_Witness ==
  \E c \in DOMAIN calls :
    /\ upstream[calls[c].mux].by < c
    /\ kolibri_task_multiplexer_get_completed(muxes[calls[c].mux])
    /\ calls[c].replies # <<>>
    /\ calls[c].replies[1].ok

\* C7, as claimed: an invocation is never answered twice, and once its
\* multiplexer has completed it has been answered exactly once.
C7_AnsweredOnceMultiplexerCompletes ==
  \A c \in DOMAIN calls :
    /\ Len(calls[c].replies) <= 1
    /\ kolibri_task_multiplexer_get_completed(muxes[calls[c].mux])
         => Len(calls[c].replies) = 1

\* C7, amended: an invocation is never answered twice; it is not answered
\* while its multiplexer is pending; and once its multiplexer has completed
\* it has been answered exactly once, unless the completion of its task is
\* still queued in an idle source (a task that is cancelled, or was created
\* in the main loop iteration in which the multiplexer completed).
C7_AnsweredExactlyOnce ==
  \A c \in DOMAIN calls :
    /\ Len(calls[c].replies) <= 1
    /\ ~kolibri_task_multiplexer_get_completed(muxes[calls[c].mux])
         => calls[c].replies = <<>>
    /\ kolibri_task_multiplexer_get_completed(muxes[calls[c].mux])
         => /\ Queued(c) => calls[c].replies = <<>>
            /\ ~Queued(c) => Len(calls[c].replies) = 1

\* Of two invocations of a completed multiplexer one has been answered at
\* once and the other one's completion is still queued.
C7_Witness ==
  \E c, d \in DOMAIN calls :
    /\ calls[c].mux = calls[d].mux
    /\ kolibri_task_multiplexer_get_completed(muxes[calls[c].mux])
    /\ Len(calls[c].replies) = 1
    /\ Queued(d)
    /\ calls[d].replies = <<>>

\* C8: a completed multiplexer has an empty list of next tasks, whether a
\* payload or an error was pushed to it.
C8_NoSubscriberAfterCompletion ==
  \A m \in DOMAIN muxes :
    kolibri_task_multiplexer_get_completed(muxes[m])
      => muxes[m].next_tasks = <<>>

\* A multiplexer with two invocations completed with a payload, another one
\* completed with an error.
C8_Witness ==
  \E m, k \in DOMAIN muxes :
    /\ kolibri_task_multiplexer_get_completed(muxes[m])
    /\ kolibri_task_multiplexer_get_completed(muxes[k])
    /\ Cardinality(Attached(m)) = 2
    /\ Deref(upstream[m].outcome).ok
    /\ ~Deref(upstream[k].outcome).ok
    /\ muxes[m].next_tasks = <<>>
    /\ muxes[k].next_tasks = <<>>

\* C9: a multiplexer that is completed is completed after every step.
C9_CompletedNeverReverts ==
  [][\A m \in DOMAIN muxes :
       kolibri_task_multiplexer_get_completed(muxes[m])
         => kolibri_task_multiplexer_get_completed(muxes'[m])]_vars

\* The first multiplexer completed on its own; since then a second one was
\* made and cancelled by a third.
C9_Witness ==
  /\ Len(muxes) = 3
  /\ kolibri_task_multiplexer_get_completed(muxes[1])
  /\ ~Discarded(1)
  /\ Discarded(2)
  /\ kolibri_task_multiplexer_get_completed(muxes[1])

\* C10: the provider holds a reference on at most one multiplexer, the one
\* in its slot; the slot and the recorded query are set together; and the
\* recorded query is the query of the one upstream call issued for the
\* multiplexer in the slot.
C10_OneMultiplexerOneQuery ==
  /\ (search_multiplexer = NULL) <=> (search_multiplexer_query = NULL)
  /\ {m \in DOMAIN muxes : Held(m)} = search_multiplexer
  /\ search_multiplexer # NULL =>
       \E u \in DOMAIN upstream :
         /\ UpstreamFor(Deref(search_multiplexer)) = {u}
         /\ Some(upstream[u].query) = search_multiplexer_query

\* The slot holds the third multiplexer, made for the query of the first
\* after one for another query.
C10_Witness ==
  /\ search_multiplexer = Some(3)
  /\ upstream[1].query = upstream[3].query
  /\ upstream[2].query # upstream[3].query
  /\ search_multiplexer_query = Some(upstream[3].query)

\* The channels of the other invocations attached to the multiplexer of
\* invocation c.
SiblingChannels(c) ==
  {Deref(Scope(d)) : d \in {e \in Attached(calls[c].mux) \ {c} : Scope(e) # NULL}}

\* C11: an invocation on the base path that is answered with a result set
\* gets the payload of its multiplexer without the items whose origin channel
\* is the channel of another invocation attached to that same multiplexer,
\* and with every other item: the excluded channels are those of its own
\* multiplexer's invocations, never those of another multiplexer.
C11_ExcludeSetIsSiblingChannels ==
  \A c \in DOMAIN calls :
    (Scope(c) = NULL /\ AnsweredOk(c))
      => calls[c].replies[1].value
           = Kept(Payload(c),
                  LAMBDA item_id : OriginChannel(item_id) \notin SiblingChannels(c))

\* C12: an invocation on a channel's path that is answered with a result set
\* gets items of its own channel only: the items of the payload whose origin
\* channel is its channel and that are not the channel's root node, whatever
\* other invocations share its multiplexer; so two invocations on different
\* channels have no item in common.
C12_ChannelIsolation ==
  \A c \in DOMAIN calls :
    (Scope(c) # NULL /\ AnsweredOk(c))
      => /\ \A item_id \in Range(calls[c].replies[1].value) :
              OriginChannel(item_id) = Deref(Scope(c))
         /\ calls[c].replies[1].value
              = Kept(Payload(c),
                     LAMBDA item_id :
                       /\ OriginChannel(item_id) = Deref(Scope(c))
                       /\ NodeIdOf(item_id) # OriginChannel(item_id))
         /\ \A d \in DOMAIN calls :
              (Scope(d) # NULL /\ AnsweredOk(d) /\ Scope(d) # Scope(c))
                => Range(calls[c].replies[1].value)
                     \cap Range(calls[d].replies[1].value) = {}

\* Invocations on channel a, on channel b and on the base path share one
\* multiplexer and are answered with a result set; each channel invocation
\* got an item.
C12_Witness ==
  \E c, d, e \in DOMAIN calls :
    /\ calls[c].mux = calls[d].mux /\ calls[d].mux = calls[e].mux
    /\ Scope(c) = Some(ChannelA) /\ Scope(d) = Some(ChannelB) /\ Scope(e) = NULL
    /\ AnsweredOk(c) /\ AnsweredOk(d) /\ AnsweredOk(e)
    /\ calls[c].replies[1].value # <<>>
    /\ calls[d].replies[1].value # <<>>

\* sub is seq with some of its elements left out.
RECURSIVE IsSubsequence(_, _)
IsSubsequence(sub, seq) ==
  IF sub = <<>> THEN TRUE
  ELSE IF seq = <<>> THEN FALSE
  ELSE IF Head(sub) = Head(seq) THEN IsSubsequence(Tail(sub), Tail(seq))
  ELSE IsSubsequence(sub, Tail(seq))

\* filter_item_ids has returned.
Filtered == filter_run.out_item_ids # NULL

\* C13: with a channel id, of the item ids that decode the filter keeps
\* exactly those whose origin channel is the channel id and whose node id is
\* not their origin channel (the channel's root node); the list of excluded
\* channels has no part in it.
C13_ChannelScopeKeepsOwnNonRoot ==
  (Filtered /\ filter_run.channel_id # NULL)
    => Kept(Deref(filter_run.out_item_ids), Decodes)
         = Kept(filter_run.all_item_ids,
                LAMBDA item_id :
                  /\ Decodes(item_id)
                  /\ OriginChannel(item_id) = Deref(filter_run.channel_id)
                  /\ NodeIdOf(item_id) # OriginChannel(item_id))

\* The root node and a node of channel a were filtered for channel a, with
\* channel a itself in the list of excluded channels: the node was kept.
C13_Witness ==
  /\ filter_run.all_item_ids = <<ItemRootA, ItemNodeA>>
  /\ filter_run.channel_id = Some(ChannelA)
  /\ filter_run.exclude_channel_ids = Some(<<ChannelA>>)
  /\ filter_run.out_item_ids = Some(<<ItemNodeA>>)

\* C14: without a channel id and with a non-empty list of excluded channels,
\* of the item ids that decode the filter keeps exactly those whose origin
\* channel is not in the list, root nodes like any other node.
C14_BaseScopeDropsExcludedChannels ==
  (/\ Filtered
   /\ filter_run.channel_id = NULL
   /\ filter_run.exclude_channel_ids # NULL
   /\ filter_run.exclude_channel_ids # Some(<<>>))
    => Kept(Deref(filter_run.out_item_ids), Decodes)
         = Kept(filter_run.all_item_ids,
                LAMBDA item_id :
                  /\ Decodes(item_id)
                  /\ OriginChannel(item_id)
                       \notin Range(Deref(filter_run.exclude_channel_ids)))

\* A node of channel a, a node of channel b and the root node of channel b
\* were filtered with channel b excluded: the node of channel a was kept.
C14_Witness ==
  /\ filter_run.all_item_ids = <<ItemNodeA, ItemNodeB, ItemRootB>>
  /\ filter_run.channel_id = NULL
  /\ filter_run.exclude_channel_ids = Some(<<ChannelB>>)
  /\ filter_run.out_item_ids = Some(<<ItemNodeA>>)

\* C15, as claimed: without a channel id and with no excluded channel, the
\* filter gives back the list it was given.
C15_BaseScopeKeepsEverything ==
  (/\ Filtered
   /\ filter_run.channel_id = NULL
   /\ filter_run.exclude_channel_ids \in {NULL, Some(<<>>)})
    => Deref(filter_run.out_item_ids) = filter_run.all_item_ids

\* C15, amended: without a channel id and with no excluded channel, the
\* filter keeps every item id that decodes, root nodes included, and drops
\* every item id that does not.
C15_BaseScopeKeepsEveryDecodableId ==
  (/\ Filtered
   /\ filter_run.channel_id = NULL
   /\ filter_run.exclude_channel_ids \in {NULL, Some(<<>>)})
    => Deref(filter_run.out_item_ids) = Kept(filter_run.all_item_ids, Decodes)

\* A root node, an item id without "?" and a node were filtered with an
\* empty list of excluded channels: the item id without "?" was dropped.
C15_Witness ==
  /\ filter_run.all_item_ids = <<ItemRootA, ItemNoContext, ItemNodeB>>
  /\ filter_run.channel_id = NULL
  /\ filter_run.exclude_channel_ids = Some(<<>>)
  /\ filter_run.out_item_ids = Some(<<ItemRootA, ItemNodeB>>)

\* C16: whatever the channel id and the excluded channels, the filter's
\* result is its input with some item ids left out: the kept ones are in the
\* order of the input, and an item id that is kept is kept as many times as
\* it was given.
C16_FilterPreservesOrder ==
  Filtered
    => /\ IsSubsequence(Deref(filter_run.out_item_ids), filter_run.all_item_ids)
       /\ \A item_id \in Range(Deref(filter_run.out_item_ids)) :
            Count(Deref(filter_run.out_item_ids), item_id)
              = Count(filter_run.all_item_ids, item_id)

\* Two different nodes of channel a with a node of channel b between them
\* were filtered for channel a: the two were kept, in their order.
C16_Witness ==
  /\ filter_run.all_item_ids = <<ItemNodeA, ItemNodeB, ItemDeepNodeA>>
  /\ filter_run.channel_id = Some(ChannelA)
  /\ filter_run.out_item_ids = Some(<<ItemNodeA, ItemDeepNodeA>>)

\* parse_item_id, then parse_node_path, has returned.
ItemParsed == parse_run.item # NULL
PathParsed == parse_run.path # NULL

\* The string given to parse_item_id, and the node path given to
\* parse_node_path.
ItemIdString == Deref(parse_run.item_id)
NodePathString == Deref(Deref(parse_run.item).node_path)

\* The item id of node kind k, node id i and origin channel c.
Encode(k, i, c) == k \o <<"/">> \o i \o <<"?">> \o c

SeparatorFree(str) == Count(str, "/") = 0 /\ Count(str, "?") = 0

\* C17: when the string given to parse_item_id is k/i?c for a node kind k, a
\* node id i and an origin channel c that hold neither "/" nor "?", it is
\* accepted with node path k/i and node context c, and parse_node_path then
\* accepts that node path with node kind k and node id i. (Such k, i and c
\* can only be the parts of the string around its first "/" and first "?".)
C17_DecodeInvertsEncode ==
  (ItemParsed /\ parse_run.item_id # NULL)
    => LET k == Before(ItemIdString, "/")
           i == SubSeq(ItemIdString, FirstIndex(ItemIdString, "/") + 1,
                       FirstIndex(ItemIdString, "?") - 1)
           c == After(ItemIdString, "?")
       IN  (/\ SeparatorFree(k) /\ SeparatorFree(i) /\ SeparatorFree(c)
            /\ ItemIdString = Encode(k, i, c))
             => /\ Deref(parse_run.item).ok
                /\ Deref(parse_run.item).node_path = Some(k \o <<"/">> \o i)
                /\ Deref(parse_run.item).node_context = Some(c)
                /\ PathParsed
                     => /\ Deref(parse_run.path).ok
                        /\ Deref(parse_run.path).node_kind = Some(k)
                        /\ Deref(parse_run.path).node_id = Some(i)

\* The item id a/b?ab was parsed, and its node path after it.
C17_Witness ==
  /\ parse_run.item_id = Some(Encode(<<"a">>, <<"b">>, <<"a", "b">>))
  /\ PathParsed
  /\ Deref(parse_run.path).node_kind = Some(<<"a">>)
  /\ Deref(parse_run.path).node_id = Some(<<"b">>)
  /\ Deref(parse_run.item).node_context = Some(<<"a", "b">>)

\* C18, as claimed: a non-empty string is accepted by parse_item_id when it
\* holds exactly one "?", and rejected as an invalid item id when it holds
\* none or more than one.
C18_ExactlyOneContextSeparator ==
  (ItemParsed /\ parse_run.item_id # NULL /\ ItemIdString # <<>>)
    => /\ Deref(parse_run.item).ok <=> Count(ItemIdString, "?") = 1
       /\ ~Deref(parse_run.item).ok
            => Deref(parse_run.item).error = "INVALID_ITEM_ID"

\* C18, amended: a non-empty string is accepted by parse_item_id when it
\* holds at least one "?": the node path is what comes before the first "?"
\* and the node context everything after it, further "?" included. It is
\* rejected as an invalid item id when it holds no "?".
C18_AtLeastOneContextSeparator ==
  (ItemParsed /\ parse_run.item_id # NULL /\ ItemIdString # <<>>)
    => /\ Deref(parse_run.item).ok <=> Count(ItemIdString, "?") >= 1
       /\ Deref(parse_run.item).ok
            => /\ Deref(parse_run.item).node_path
                    = Some(Before(ItemIdString, "?"))
               /\ Deref(parse_run.item).node_context
                    = Some(After(ItemIdString, "?"))
               /\ Deref(parse_run.item).error = "none"
       /\ ~Deref(parse_run.item).ok
            => /\ Deref(parse_run.item).error = "INVALID_ITEM_ID"
               /\ Deref(parse_run.item).node_path = NULL
               /\ Deref(parse_run.item).node_context = NULL

\* The string a?b?a was accepted, with node context b?a.
C18_Witness ==
  /\ parse_run.item_id = Some(<<"a", "?", "b", "?", "a">>)
  /\ ItemParsed
  /\ Deref(parse_run.item).ok
  /\ Deref(parse_run.item).node_path = Some(<<"a">>)
  /\ Deref(parse_run.item).node_context = Some(<<"b", "?", "a">>)

\* C19, as claimed: an absent item id and the empty string are both accepted
\* by parse_item_id, with no node path and no node context.
C19_EmptyOrAbsentIdIsNoItem ==
  (ItemParsed /\ parse_run.item_id \in {NULL, Some(<<>>)})
    => /\ Deref(parse_run.item).ok
       /\ Deref(parse_run.item).node_path = NULL
       /\ Deref(parse_run.item).node_context = NULL

\* C19, amended: an absent item id is accepted by parse_item_id, with no node
\* path and no node context; the empty string is rejected as an invalid
\* item id.
C19_AbsentIdIsNoItemEmptyIdIsInvalid ==
  /\ (ItemParsed /\ parse_run.item_id = NULL)
       => /\ Deref(parse_run.item).ok
          /\ Deref(parse_run.item).node_path = NULL
          /\ Deref(parse_run.item).node_context = NULL
          /\ Deref(parse_run.item).error = "none"
  /\ (ItemParsed /\ parse_run.item_id = Some(<<>>))
       => /\ ~Deref(parse_run.item).ok
          /\ Deref(parse_run.item).error = "INVALID_ITEM_ID"

\* The empty string was given to parse_item_id and rejected.
C19_Witness ==
  /\ parse_run.item_id = Some(<<>>)
  /\ ItemParsed
  /\ ~Deref(parse_run.item).ok

\* C20, as claimed: a node path is accepted by parse_node_path when it holds
\* exactly one "/", and rejected as an invalid node path when it holds none
\* or more than one.
C20_ExactlyOnePathSeparator ==
  PathParsed
    => /\ Deref(parse_run.path).ok <=> Count(NodePathString, "/") = 1
       /\ ~Deref(parse_run.path).ok
            => Deref(parse_run.path).error = "INVALID_NODE_PATH"

\* C20, amended: a node path is accepted by parse_node_path when it holds at
\* least one "/": the node kind is what comes before the first "/" and the
\* node id everything after it, further "/" included. It is rejected as an
\* invalid node path when it holds no "/".
C20_AtLeastOnePathSeparator ==
  PathParsed
    => /\ Deref(parse_run.path).ok <=> Count(NodePathString, "/") >= 1
       /\ Deref(parse_run.path).ok
            => /\ Deref(parse_run.path).node_kind
                    = Some(Before(NodePathString, "/"))
               /\ Deref(parse_run.path).node_id
                    = Some(After(NodePathString, "/"))
               /\ Deref(parse_run.path).error = "none"
       /\ ~Deref(parse_run.path).ok
            => /\ Deref(parse_run.path).error = "INVALID_NODE_PATH"
               /\ Deref(parse_run.path).node_kind = NULL
               /\ Deref(parse_run.path).node_id = NULL

\* The node path a/b/a of the item id a/b/a? was accepted, with node id b/a.
C20_Witness ==
  /\ parse_run.item_id = Some(<<"a", "/", "b", "/", "a", "?">>)
  /\ PathParsed
  /\ Deref(parse_run.path).ok
  /\ Deref(parse_run.path).node_kind = Some(<<"a">>)
  /\ Deref(parse_run.path).node_id = Some(<<"b", "/", "a">>)

\* The place of invocation c in the order of the answers.
AnswerRank(c) == CHOOSE n \in 1..Len(reply_log) : reply_log[n] = c

\* C26: as many upstream calls have been issued as multiplexers were made,
\* one for each, by the search call that made the multiplexer (the first one
\* attached to it); and an upstream call is issued only by the step in which
\* a search call arrives, never by the step in which an upstream call
\* completes, with an error or not, or in which a task calls back.
C26_NothingIsRetried ==
  /\ [](/\ Len(upstream) = Len(muxes)
        /\ \A u \in DOMAIN upstream :
             /\ upstream[u].mux = u
             /\ calls[upstream[u].by].mux = u
             /\ \A c \in Attached(u) : upstream[u].by <= c)
  /\ [][Len(upstream') # Len(upstream)
          => /\ Arrives
             /\ Len(upstream') = Len(upstream) + 1
             /\ Len(muxes') = Len(muxes) + 1
             /\ upstream'[Len(upstream')].by = Len(calls')]_vars

\* Three multiplexers were made and three upstream calls issued; the first
\* ended with the catalog's error and the second with the cancelled error.
C26_Witness ==
  /\ Len(muxes) = 3
  /\ Len(upstream) = 3
  /\ upstream[1].outcome = Some(Err("UpstreamError"))
  /\ upstream[2].outcome = Some(Err("Cancelled"))

\* C27: the step that cancels a multiplexer's cancellable leaves its list of
\* next tasks, its main task and the invocations attached to it as they were,
\* queues no completion and leaves the multiplexer pending with its upstream
\* call in flight. A cancelled multiplexer completes in a later step, after
\* its upstream call was pushed to it as the cancelled error. A multiplexer
\* that has completed is never cancelled.
C27_CancelOnlyMarksTheHandle ==
  [][\A m \in DOMAIN muxes :
       /\ (cancellable'[m] /\ ~cancellable[m])
            => /\ muxes'[m].next_tasks = muxes[m].next_tasks
               /\ muxes'[m].main_task = muxes[m].main_task
               /\ ~kolibri_task_multiplexer_get_completed(muxes[m])
               /\ ~kolibri_task_multiplexer_get_completed(muxes'[m])
               /\ \A c \in Attached(m) : calls'[c] = calls[c]
               /\ idle' = idle /\ idle_new' = idle_new /\ reply_log' = reply_log
               /\ upstream'[m] = upstream[m]
               /\ upstream[m].state = "inflight"
       /\ (/\ Discarded(m)
           /\ ~kolibri_task_multiplexer_get_completed(muxes[m])
           /\ kolibri_task_multiplexer_get_completed(muxes'[m]))
            => /\ upstream[m].outcome = Some(Err("Cancelled"))
               /\ muxes[m].pushes = 1
       /\ kolibri_task_multiplexer_get_completed(muxes[m])
            => /\ cancellable'[m] = cancellable[m]
               /\ muxes'[m].next_tasks = muxes[m].next_tasks
               /\ muxes'[m].main_task = muxes[m].main_task]_vars

\* The first multiplexer is cancelled and pending, with two invocations in
\* its list and nothing returned to them or pushed to it.
C27_Witness ==
  /\ Len(muxes) = 2
  /\ Discarded(1)
  /\ ~kolibri_task_multiplexer_get_completed(muxes[1])
  /\ muxes[1].next_tasks = <<1, 2>>
  /\ calls[1].task.result = NULL /\ calls[2].task.result = NULL
  /\ muxes[1].pushes = 0

\* C28: no g_assert has failed; at most one outcome was pushed to each
\* multiplexer, the one of its upstream call; and an outcome is pushed to a
\* multiplexer only while it is pending, with its main task there and not
\* returned yet.
C28_PushedOnceWhilePending ==
  /\ [](/\ ~assert_failed
        /\ \A m \in DOMAIN muxes :
             /\ muxes[m].pushes <= 1
             /\ muxes[m].pushes
                  = Cardinality({u \in UpstreamFor(m) : upstream[u].state = "done"}))
  /\ [][\A m \in DOMAIN muxes :
          muxes'[m].pushes # muxes[m].pushes
            => /\ muxes'[m].pushes = muxes[m].pushes + 1
               /\ ~kolibri_task_multiplexer_get_completed(muxes[m])
               /\ muxes[m].main_task # NULL
               /\ ~Deref(muxes[m].main_task).ever_returned]_vars

\* Three multiplexers, two of them cancelled, have each been pushed one
\* outcome and have completed.
C28_Witness ==
  /\ Len(muxes) = 3
  /\ Discarded(1) /\ Discarded(2)
  /\ \A m \in DOMAIN muxes :
       /\ muxes[m].pushes = 1
       /\ kolibri_task_multiplexer_get_completed(muxes[m])

\* C29: a search call that arrives when the multiplexer in the slot has
\* completed is attached to a new multiplexer, for which one upstream call
\* is issued, whatever its query; nothing is returned to it in that step and
\* the completed multiplexer gets no next task. A search call is attached to
\* the multiplexer that was in the slot only if that one is pending and the
\* recorded query is the call's query.
C29_CompletedNeverReused ==
  [][Arrives =>
       /\ (/\ search_multiplexer # NULL
           /\ kolibri_task_multiplexer_get_completed(SlotMux))
            => /\ Len(muxes') = Len(muxes) + 1
               /\ Arrived.mux = Len(muxes) + 1
               /\ search_multiplexer' = Some(Len(muxes) + 1)
               /\ Len(upstream') = Len(upstream) + 1
               /\ upstream'[Len(upstream')].mux = Len(muxes) + 1
               /\ upstream'[Len(upstream')].query = Arrived.query
               /\ upstream'[Len(upstream')].state = "inflight"
               /\ muxes'[Deref(search_multiplexer)].next_tasks = <<>>
               /\ Arrived.task.result = NULL
               /\ Arrived.replies = <<>>
       /\ (search_multiplexer # NULL /\ Arrived.mux = Deref(search_multiplexer))
            => /\ ~kolibri_task_multiplexer_get_completed(SlotMux)
               /\ search_multiplexer_query = Some(Arrived.query)
               /\ upstream' = upstream]_vars

\* The first multiplexer completed with a payload; a call with the same
\* query then got a second multiplexer and a second upstream call.
C29_Witness ==
  /\ Len(muxes) = 2
  /\ Len(upstream) = 2
  /\ upstream[1].query = upstream[2].query
  /\ upstream[1].outcome # NULL
  /\ Deref(upstream[1].outcome).ok
  /\ ~Discarded(1)
  /\ calls[Len(calls)].mux = 2

\* C30: of two invocations attached to the same multiplexer, the one attached
\* first is answered first: the later one is never answered while the
\* earlier one is not, and the earlier one comes first in the order of the
\* answers.
C30_DeliveryInAttachmentOrder ==
  \A c, d \in DOMAIN calls :
    (c < d /\ calls[c].mux = calls[d].mux /\ calls[d].replies # <<>>)
      => /\ calls[c].replies # <<>>
         /\ c \in Range(reply_log) /\ d \in Range(reply_log)
         /\ AnswerRank(c) < AnswerRank(d)

\* Three invocations of one multiplexer were answered with the payload, in
\* the order in which they were attached.
C30_Witness ==
  /\ Len(calls) = 3
  /\ \A c \in DOMAIN calls : calls[c].mux = 1 /\ AnsweredOk(c)
  /\ reply_log = <<1, 2, 3>>

\* The item id decodes as the launcher's URI needs it: it has a "?".
ItemDecodes(item_id) == Count(item_id, "?") >= 1

\* The channel scope of the last call that launches Kolibri, and whether
\* its URI was built.
ActivationScope == get_channel_id_for_invocation(activation.object_path)
UriBuilt == activation.uris_list # <<>>

\* The last call that launches Kolibri names an item that decodes, on the
\* path of another channel than the item's.
ItemOfOtherChannel ==
  /\ activation.item_id # NULL
  /\ ItemDecodes(Deref(activation.item_id))
  /\ ActivationScope # NULL
  /\ OriginChannel(Deref(activation.item_id)) # Deref(ActivationScope)

\* C21: a call that launches Kolibri is answered with the wrong channel
\* error exactly when it names an item id that decodes, its scope is a
\* channel and the item's origin channel is another one; then no URI is made
\* and the launcher is not invoked. An item id that does not decode is
\* answered with the invalid item id error, again with no URI and no launch.
\* On the base path or with no item id the wrong channel error never comes.
C21_WrongChannelExactly ==
  activation.method # "none" =>
    /\ activation.reply = Some(Err("WRONG_CHANNEL")) <=> ItemOfOtherChannel
    /\ ItemOfOtherChannel => ~UriBuilt /\ activation.launch = "none"
    /\ (activation.item_id # NULL /\ ~ItemDecodes(Deref(activation.item_id)))
         => /\ activation.reply = Some(Err("INVALID_ITEM_ID"))
            /\ ~UriBuilt /\ activation.launch = "none"
    /\ (ActivationScope = NULL \/ activation.item_id = NULL)
         => activation.reply # Some(Err("WRONG_CHANNEL"))

\* ActivateResult on the path of channel a named a node of channel b: the
\* reply is the wrong channel error.
C21_Witness ==
  /\ activation.method = "ActivateResult"
  /\ ActivationScope = Some(ChannelA)
  /\ activation.item_id = Some(ItemNodeB)
  /\ activation.reply = Some(Err("WRONG_CHANNEL"))
  /\ activation.uris_list = <<>>

\* str with every space replaced by its escape sequence.
RECURSIVE SpacesEscaped(_)
SpacesEscaped(str) ==
  IF str = <<>> THEN <<>>
  ELSE (IF Head(str) = " " THEN <<"%", "2", "0">> ELSE <<Head(str)>>)
         \o SpacesEscaped(Tail(str))

\* "/" and the node path of the item the last call names, nothing when it
\* names none.
UriPath ==
  IF activation.item_id # NULL
    THEN <<"/">> \o NodePathOf(Deref(activation.item_id))
    ELSE <<>>

SearchEquals == <<"?", "s", "e", "a", "r", "c", "h", "=">>

\* C22 as stated: the URI is the scheme, "://", the channel id (nothing on
\* the base path), "/" and the node path when an item id is given,
\* "?search=" and the query, each as it is.
C22_UriIsSchemeChannelPathQuery ==
  UriBuilt =>
    activation.uris_list
      = <<DISPATCH_URI_SCHEME \o <<":", "/", "/">>
            \o (IF ActivationScope # NULL THEN Deref(ActivationScope) ELSE <<>>)
            \o UriPath \o SearchEquals \o activation.query>>

\* C22, amended: the URI is the scheme and ":", then "//" and the channel id
\* when the scope is a channel (nothing on the base path), then "/" and the
\* node path when an item id is given, then "?search=" and the query, with
\* the spaces of the node path and of the query escaped as %20. The origin
\* channel of the item is no part of it.
C22_UriByScopeWithEscapes ==
  UriBuilt =>
    activation.uris_list
      = <<DISPATCH_URI_SCHEME \o <<":">>
            \o (IF ActivationScope # NULL
                  THEN <<"/", "/">> \o Deref(ActivationScope)
                  ELSE <<>>)
            \o SpacesEscaped(UriPath)
            \o SearchEquals \o SpacesEscaped(activation.query)>>

\* ActivateResult on the base path named a node whose id is a space, with
\* two terms: the URI has no "//", and both spaces are escaped.
C22_Witness ==
  /\ activation.method = "ActivateResult"
  /\ activation.object_path = SEARCH_PROVIDER_OBJECT_PATH
  /\ activation.item_id = Some(ItemSpaceNodeA)
  /\ activation.query = <<"x", " ", "y">>
  /\ activation.uris_list
       = <<DISPATCH_URI_SCHEME
             \o <<":", "/", "v", "/", "%", "2", "0", "?", "s", "e", "a", "r",
                  "c", "h", "=", "x", "%", "2", "0", "y">>>>

\* The node of a path one segment below the base path.
BelowBase(object_path) ==
  /\ HasPrefix(object_path, SEARCH_PROVIDER_OBJECT_PATH \o <<"/">>)
  /\ Count(object_path, "/") = Count(SEARCH_PROVIDER_OBJECT_PATH, "/") + 1
NodeOf(object_path) ==
  SubSeq(object_path, Len(SEARCH_PROVIDER_OBJECT_PATH) + 2, Len(object_path))
ChannelNode(object_path) ==
  /\ BelowBase(object_path)
  /\ HasPrefix(NodeOf(object_path), SEARCH_PROVIDER_CHANNEL_NODE_PREFIX)

\* C23: a method call has a handler exactly when it is for the search
\* provider interface and on the base path or on a node below it that
\* starts with the channel prefix; the handler's channel id is NULL on the
\* base path and all of the node after the prefix on a channel node. Two
\* calls of the same path and interface are routed alike, whatever was
\* routed between them.
C23_ResolutionIsPatternMatch ==
  \A n \in DOMAIN routed :
    routed[n].kind = "call" =>
      /\ routed[n].handler # NULL
           <=> /\ routed[n].interface_name = SearchProviderInterface
               /\ \/ routed[n].object_path = SEARCH_PROVIDER_OBJECT_PATH
                  \/ ChannelNode(routed[n].object_path)
      /\ (routed[n].handler # NULL
            /\ routed[n].object_path = SEARCH_PROVIDER_OBJECT_PATH)
           => routed[n].channel_id = NULL
      /\ (routed[n].handler # NULL /\ ChannelNode(routed[n].object_path))
           => routed[n].channel_id
                = Some(SubSeq(NodeOf(routed[n].object_path),
                              Len(SEARCH_PROVIDER_CHANNEL_NODE_PREFIX) + 1,
                              Len(NodeOf(routed[n].object_path))))
      /\ \A k \in DOMAIN routed :
           (/\ routed[k].kind = "call"
            /\ routed[k].object_path = routed[n].object_path
            /\ routed[k].interface_name = routed[n].interface_name)
             => routed[k] = routed[n]

\* A call on the node of channel a was handled with channel id a, then a
\* call on a node that lacks the "_" of the prefix found no handler.
C23_Witness ==
  /\ Len(routed) = 2
  /\ routed[1].kind = "call"
  /\ routed[1].object_path = SEARCH_PROVIDER_CHANNEL_OBJECT_PATH_PREFIX \o ChannelA
  /\ routed[1].handler # NULL
  /\ routed[1].channel_id = Some(ChannelA)
  /\ routed[2].kind = "call"
  /\ routed[2].interface_name = SearchProviderInterface
  /\ routed[2].object_path
       = SEARCH_PROVIDER_OBJECT_PATH
           \o <<"/", "c", "h", "a", "n", "n", "e", "l", "a">>
  /\ routed[2].handler = NULL

\* C24: the introspection of the base path lists no child node, whatever
\* was routed before it; a call for the search provider interface on a node
\* that starts with the channel prefix has a handler, and the introspection
\* of such a node shows the search provider interface.
C24_EnumerationIndependentOfDispatch ==
  \A n \in DOMAIN routed :
    /\ (/\ routed[n].kind = "introspect"
        /\ routed[n].object_path = SEARCH_PROVIDER_OBJECT_PATH)
         => routed[n].children = <<>>
    /\ (/\ routed[n].kind = "call"
        /\ routed[n].interface_name = SearchProviderInterface
        /\ ChannelNode(routed[n].object_path))
         => routed[n].handler # NULL
    /\ (routed[n].kind = "introspect" /\ ChannelNode(routed[n].object_path))
         => routed[n].interfaces = <<SearchProviderInterface>>

\* A call on the node of channel a was handled, and the introspection of the
\* base path after it lists no child.
C24_Witness ==
  /\ Len(routed) = 2
  /\ routed[1].kind = "call"
  /\ routed[1].object_path = SEARCH_PROVIDER_CHANNEL_OBJECT_PATH_PREFIX \o ChannelA
  /\ routed[1].handler # NULL
  /\ routed[2].kind = "introspect"
  /\ routed[2].object_path = SEARCH_PROVIDER_OBJECT_PATH
  /\ routed[2].children = <<>>

\* This step is a call of ActivateResult that is answered with a parsing or
\* channel error.
ActivateResultFails ==
  /\ activation'.number = activation.number + 1
  /\ activation'.method = "ActivateResult"
  /\ activation'.reply
       \in {Some(Err("INVALID_ITEM_ID")), Some(Err("WRONG_CHANNEL"))}

\* C25: a call of ActivateResult that is answered with the invalid item id
\* or the wrong channel error leaves the provider's multiplexer, its query,
\* every multiplexer with its list of next tasks and its cancellable, every
\* search invocation, every upstream call and every queued completion as
\* they were, and answers no search invocation.
C25_ActivationErrorLeavesSearchAlone ==
  [][ActivateResultFails =>
       /\ search_multiplexer' = search_multiplexer
       /\ search_multiplexer_query' = search_multiplexer_query
       /\ muxes' = muxes
       /\ cancellable' = cancellable
       /\ calls' = calls
       /\ upstream' = upstream
       /\ idle' = idle /\ idle_new' = idle_new /\ created_now' = created_now
       /\ reply_log' = reply_log
       /\ assert_failed' = assert_failed]_vars

\* ActivateResult was answered with the invalid item id error while two
\* search invocations wait on the pending multiplexer of the provider, whose
\* upstream call is in flight.
C25_Witness ==
  /\ activation.method = "ActivateResult"
  /\ activation.reply = Some(Err("INVALID_ITEM_ID"))
  /\ search_multiplexer = Some(1)
  /\ ~kolibri_task_multiplexer_get_completed(muxes[1])
  /\ muxes[1].next_tasks = <<1, 2>>
  /\ upstream[1].state = "inflight"
  /\ calls[1].replies = <<>> /\ calls[2].replies = <<>>

----------------------------------------------------------------------------
\* Bus selection

\* The variable is set and non-empty in the environment of the process.
FlagSet(name) ==
  bus_run.env[name] # NULL /\ Deref(bus_run.env[name]) # <<>>

\* Both content and db.sqlite3 exist in the Kolibri home.
LocalDataExists == local_kolibri_exists(bus_run.env, bus_run.files)

BusChosen == bus_run.bus_type # NULL

\* C34: with USE_SYSTEM_INSTANCE set and non-empty, FORCE_USE_SYSTEM_INSTANCE
\* unset and local Kolibri data present, the bus type computed is the session
\* bus.
C34_LocalDataOverridesUseSystemInstance ==
  (/\ BusChosen
   /\ FlagSet(USE_SYSTEM_INSTANCE)
   /\ ~FlagSet(FORCE_USE_SYSTEM_INSTANCE)
   /\ LocalDataExists)
    => bus_run.bus_type = Some(G_BUS_TYPE_SESSION)

\* C35: with FORCE_USE_SYSTEM_INSTANCE set and non-empty the bus type
\* computed is the system bus, whatever USE_SYSTEM_INSTANCE is and whether or
\* not local data exists; with neither variable set it is the session bus.
C35_ForceSelectsSystemBus ==
  BusChosen =>
    /\ FlagSet(FORCE_USE_SYSTEM_INSTANCE)
         => bus_run.bus_type = Some(G_BUS_TYPE_SYSTEM)
    /\ (~FlagSet(FORCE_USE_SYSTEM_INSTANCE) /\ ~FlagSet(USE_SYSTEM_INSTANCE))
         => bus_run.bus_type = Some(G_BUS_TYPE_SESSION)

----------------------------------------------------------------------------
\* Pending and discarded multiplexers

\* Multiplexer m is pending: its main task has not called back.
Pending(m) == ~kolibri_task_multiplexer_get_completed(muxes[m])

\* C36: at most one multiplexer is pending with its cancellable not
\* cancelled, and it is the one in the provider's slot; every pending
\* multiplexer that is not in the slot has its cancellable cancelled.
C36_OnePendingLiveMultiplexer ==
  /\ Cardinality({m \in DOMAIN muxes : Pending(m) /\ ~cancellable[m]}) <= 1
  /\ \A m \in DOMAIN muxes :
       /\ (Pending(m) /\ ~cancellable[m]) => search_multiplexer = Some(m)
       /\ (Pending(m) /\ search_multiplexer # Some(m)) => cancellable[m]

\* Two cancelled multiplexers are pending together with the one in the slot,
\* which was made for the query of the first.
C36_Witness ==
  /\ Len(muxes) = 3
  /\ \A m \in 1..3 : Pending(m)
  /\ cancellable[1] /\ cancellable[2] /\ ~cancellable[3]
  /\ search_multiplexer = Some(3)
  /\ \E c, d \in DOMAIN calls :
       calls[c].mux = 1 /\ calls[d].mux = 3 /\ calls[c].query = calls[d].query

\* C37: no invocation attached to a multiplexer that a query change
\* cancelled is returned or answered a result set: what it is returned and
\* every reply it gets is an error; so an invocation answered a result set is
\* attached to a multiplexer that was never cancelled.
C37_SupersededSearchReturnsNoResults ==
  \A c \in DOMAIN calls :
    /\ Discarded(calls[c].mux) =>
         /\ calls[c].task.result # NULL => ~Deref(calls[c].task.result).ok
         /\ \A n \in 1..Len(calls[c].replies) : ~calls[c].replies[n].ok
    /\ (\E n \in 1..Len(calls[c].replies) : calls[c].replies[n].ok)
         => ~Discarded(calls[c].mux)

\* An invocation of a cancelled multiplexer was answered the cancelled error
\* after an invocation of a multiplexer that was not cancelled got its
\* result set.
C37_Witness ==
  \E c, d \in DOMAIN calls :
    /\ Discarded(calls[c].mux)
    /\ calls[c].replies = <<Err("Cancelled")>>
    /\ upstream[calls[c].mux].state = "done"
    /\ ~Discarded(calls[d].mux)
    /\ AnsweredOk(d)

----------------------------------------------------------------------------
\* The five methods together

\* One of the five methods is called in this step.
MetasArrives == Len(metas') = Len(metas) + 1
ActivationArrives == activation'.number = activation.number + 1
MethodCalled == Arrives \/ MetasArrives \/ ActivationArrives

\* C31: every call of GetInitialResultSet, GetSubsearchResultSet,
\* GetResultMetas, LaunchSearch or ActivateResult restarts the inactivity
\* timeout of the application, whether the call succeeds or fails.
C31_EveryMethodRestartsTheTimeout ==
  [][MethodCalled => inactivity_timeout' = "restarted"]_vars

\* C32: the multiplexer in the provider's slot and the recorded query change
\* only in a step where a search call arrives: the completion of an upstream
\* call, the delivery to the invocations, GetResultMetas, LaunchSearch and
\* ActivateResult leave both as they are, so a completed multiplexer stays in
\* the slot.
C32_SlotChangedOnlyBySearchCalls ==
  [][(\/ search_multiplexer' # search_multiplexer
      \/ search_multiplexer_query' # search_multiplexer_query)
     => Arrives]_vars

\* The multiplexer made by the one search call is completed and answered and
\* still in the slot with its query, after a GetResultMetas call was answered
\* and Kolibri was launched.
C32_Witness ==
  /\ Len(calls) = 1
  /\ search_multiplexer = Some(1)
  /\ search_multiplexer_query = Some(calls[1].query)
  /\ kolibri_task_multiplexer_get_completed(muxes[1])
  /\ calls[1].replies # <<>>
  /\ Len(metas) = 1 /\ metas[1].state = "done"
  /\ activation.number = 1

\* C39: a GetResultMetas call makes one upstream call of its own, for its
\* list of results, and touches no multiplexer and no search call; it gets
\* no reply while that call is in flight and exactly one when it completes:
\* the upstream error, or the upstream metadata of its results; it is never
\* the cancelled error, and a search call leaves every GetResultMetas call as
\* it is.
C39_MetasPassThrough ==
  /\ [](\A k \in DOMAIN metas :
          /\ metas[k].state = "inflight" =>
               metas[k].outcome = NULL /\ metas[k].replies = <<>>
          /\ metas[k].state = "done" =>
               \/ /\ metas[k].outcome = Some(Err("UpstreamError"))
                  /\ metas[k].replies = <<Err("UpstreamError")>>
               \/ /\ metas[k].outcome = Some(Ok(Metadata(metas[k].results)))
                  /\ metas[k].replies = <<Ok(<<Metadata(metas[k].results)>>)>>)
  /\ [][/\ MetasArrives =>
            /\ metas'[Len(metas')].state = "inflight"
            /\ SubSeq(metas', 1, Len(metas)) = metas
            /\ UNCHANGED provider_vars
        /\ Arrives => metas' = metas]_vars

\* A GetResultMetas call was answered the metadata of its two results while
\* a multiplexer cancelled by a query change is still pending.
C39_Witness ==
  /\ Len(metas) = 1
  /\ metas[1].replies = <<Ok(<<Metadata(<<ItemNodeA, ItemNodeB>>)>>)>>
  /\ Len(muxes) = 2
  /\ Discarded(1)
  /\ ~kolibri_task_multiplexer_get_completed(muxes[1])

----------------------------------------------------------------------------
\* The empty query, and item ids that do not decode

C38_UndecodableIdsAreOmitted ==
  \A c \in DOMAIN calls :
    /\ \A n \in 1..Len(calls[c].replies) :
         /\ calls[c].replies[n].error \notin {"InvalidItemId", "InvalidNodePath"}
         /\ calls[c].replies[n].ok =>
              \A i \in Range(calls[c].replies[n].value) : Decodes(i)
    /\ (/\ calls[c].replies # <<>>
        /\ calls[c].task.result # NULL
        /\ Deref(calls[c].task.result).ok
        /\ ~Discarded(calls[c].mux)) =>
         /\ calls[c].replies[1].ok
         /\ Scope(c) # NULL =>
              LET InScope(i) ==
                    /\ Decodes(i)
                    /\ OriginChannel(i) = Deref(Scope(c))
                    /\ NodeIdOf(i) # OriginChannel(i)
              IN calls[c].replies[1].value = Kept(Payload(c), InScope)

\* From a payload with two ids that do not decode, a call on the base path
\* was answered the two that do, and a call on the path of channel a the one
\* of channel a.
C38_Witness ==
  \E c, d \in DOMAIN calls :
    /\ Scope(c) = NULL
    /\ calls[c].task.result = Some(Ok(CatalogPayload))
    /\ calls[c].replies = <<Ok(<<ItemNodeA, ItemNodeB>>)>>
    /\ Scope(d) = Some(ChannelA)
    /\ calls[d].task.result = Some(Ok(CatalogPayload))
    /\ calls[d].replies = <<Ok(<<ItemNodeA>>)>>

====
